---------------------------- MODULE Spec2Model ----------------------------
(***************************************************************************)
(* Verification model of the ASE automation toolkit.                       *)
(*                                                                         *)
(*   SpecStep1 : LPL/Analysis_Codes_v2/step1_energy_calc.py  main()        *)
(*   SpecScan  : LPL/Aquisition_Codes_Separated_v4_6/main_measurement.py   *)
(*               LabAutomation.run() with its three device controllers     *)
(*   SpecCalib : LPL/Callibration.py and LPL/Wheel_Calibration.py          *)
(*               ExperimentController.run() with ExperimentHardware        *)
(*   SpecAnalysis : LPL/Analysis_Codes_v2/step2_signal_processing.py and   *)
(*               step3_spectrum_analysis.py, main() of each, run in turn   *)
(*   SpecFunctions : smooth, fwhm and the threshold estimator of           *)
(*               LPL/Analysis_Codes and LPL/Analysis_Codes_v2, each called *)
(*               on its own                                                *)
(*                                                                         *)
(* Floating point values are modelled as exact rationals extended with the *)
(* IEEE specials (inf, -inf, nan) that numpy arithmetic produces instead   *)
(* of raising.                                                             *)
(***************************************************************************)
EXTENDS Integers, Sequences, FiniteSets, TLC

\* ---- Step 1 (step1_energy_calc.py main) ----
VARIABLES pc1,              \* position in main()
          log1,             \* kinds of message printed so far
          exc1,             \* the uncaught exception that ended the run, or ""
          SPOT_SHAPE,       \* analysis_config.SPOT_SHAPE
          stripe_area_cm2,
          E_ref,
          calib_csv,        \* the calibration CSV find_calibration_file chose
          calib_curve,      \* knots of the interpolant get_calibration_curve built
          trans_ref,
          scale_factor,
          abs_file,         \* the file find_absorption_file chose
          absorption_rate,
          files,            \* os.listdir(DATA_DIR), filtered
          fidx,             \* loop index of 'for f in files'
          skipped,          \* files reported with [SKIP]
          data_list,
          df_results,
          manifest_saved

varsStep1 == <<pc1, log1, exc1, SPOT_SHAPE, stripe_area_cm2, E_ref, calib_csv,
               calib_curve, trans_ref, scale_factor, abs_file, absorption_rate,
               files, fidx, skipped, data_list, df_results, manifest_saved>>

\* ---- Angle scan (main_measurement.py LabAutomation) ----
VARIABLES pcA,                     \* position in run()
          logger,                  \* self.logger: "None" or "Logger"
          motor_controller,        \* ElliptecMotorController and its serial port
          pulser_controller,       \* SapphirePulserController and its serial port
          spectrometer_controller, \* HoribaSpectrometerController and its COM links
          plot_fig,
          shutdown_requested,
          shutdown_event,
          last_successful_integ_time_s,
          background_cache,        \* integration time -> cached background frame
          point,                   \* 1-based index i of the scan loop
          time_index,              \* index in INTEGRATION_TIME_PRESETS_S of current_integ_time
          retrying,                \* inside 'while True' after an operator [R]etry
          signal_frame,            \* the signal frame of the successful acquisition
          acq_log,                 \* the measurement log: one record per
                                   \* 'Trying acquisition at time' line
          moved,                   \* points the motor was sent to, in order
          saved,                   \* spectrum files written, in order
          stop_chosen,             \* point at which the operator answered [S]top, or 0
          sigints,                 \* SIGINTs delivered so far
          exit_exc,                \* exception that reached run(), or ""
          cleanup                  \* what the finally block of run() did

varsScan == <<pcA, logger, motor_controller, pulser_controller,
              spectrometer_controller, plot_fig, shutdown_requested,
              shutdown_event, last_successful_integ_time_s, background_cache,
              point, time_index, retrying, signal_frame, acq_log, moved, saved,
              stop_chosen, sigints, exit_exc, cleanup>>

\* ---- Calibration scan (Callibration.py / Wheel_Calibration.py) ----
VARIABLES cal_script,    \* which of the two scripts runs
          pcC,           \* position in ExperimentController.run()
          hw,            \* ExperimentHardware: the devices and their ports
          cal_i,         \* 1-based index i of the angle loop
          results,       \* self.results
          cal_saved,     \* rows _save_data wrote
          cal_exc,       \* exception leaving run(), or ""
          exit_state     \* what __exit__ met: did it run, which device failed

varsCalib == <<cal_script, pcC, hw, cal_i, results, cal_saved, cal_exc, exit_state>>

\* ---- Analysis, stages 2 and 3 (Analysis_Codes_v2/step2_signal_processing.py,
\*      step3_spectrum_analysis.py) ----
VARIABLES pcN,               \* position in the two main() functions
          START_SMOOTHING_INDEX, \* step 2 user setting: the cursor
          energy_manifest,   \* RESULTS_DIR/ENERGY_FILENAME as Step 1 left it
          raw_data,          \* DATA_DIR: the raw spectrum file of each filename
          wavelengths,       \* step 2: first column of the first raw file
          optimized_matrix,  \* step 2: one column per manifest row
          final_headers,     \* step 2: one header per column
          combined_csv,      \* COMBINED_smoothed_spectra.csv
          fwhm_list,         \* step 3
          intensity_list,    \* step 3
          estimator_input,   \* step 3: arguments of calculate_ase_threshold
          final_results,     \* FINAL_RESULTS.csv
          plots_saved,       \* step 3: the Plot_*.png files in RESULTS_DIR
          ana_exc            \* exception leaving a main(), or ""

\* ---- Functions of the analysis scripts, called on their own ----
VARIABLES fn_call,           \* the function called, its script and its arguments
          fn_result          \* what the call returned or raised

varsFunctions == <<fn_call, fn_result>>

\* ---- Spectrometer acquisition (horiba_spectrometer_controller.py
\*      acquire_frame and _wait_for_acq_id) ----
VARIABLES pcQ,               \* position in acquire_frame: "idle", "polling", "done"
          acq_request,       \* integration_time_s (in ms) and accumulations of the call
          elapsed_ms,        \* time.time() - start_time when the loop body starts
          spectrum_id,       \* spectrum_id of _wait_for_acq_id
          wait_outcome,      \* how _wait_for_acq_id ended
          frame_outcome      \* how acquire_frame ended

varsAcquire == <<pcQ, acq_request, elapsed_ms, spectrum_id, wait_outcome, frame_outcome>>

varsAnalysis == <<pcN, START_SMOOTHING_INDEX, energy_manifest, raw_data, plots_saved, wavelengths, optimized_matrix,
                  final_headers, combined_csv, fwhm_list, intensity_list,
                  estimator_input, final_results, ana_exc>>

vars == <<varsStep1, varsScan, varsCalib, varsAnalysis, varsFunctions, varsAcquire>>

\* what is left alone by each program
othersStep1 == <<varsScan, varsCalib, varsAnalysis, varsFunctions, varsAcquire>>
othersScan == <<varsStep1, varsCalib, varsAnalysis, varsFunctions, varsAcquire>>
othersCalib == <<varsStep1, varsScan, varsAnalysis, varsFunctions, varsAcquire>>
othersAnalysis == <<varsStep1, varsScan, varsCalib, varsFunctions, varsAcquire>>
othersFunctions == <<varsStep1, varsScan, varsCalib, varsAnalysis, varsAcquire>>
othersAcquire == <<varsStep1, varsScan, varsCalib, varsAnalysis, varsFunctions>>

(***************************************************************************)
(* Bounds of the model                                                     *)
(***************************************************************************)
MaxFiles == 2
\* points of the scan (NUM_POINTS of the configuration is 50)
MaxPoints == 2
\* presets taken from the head of INTEGRATION_TIME_PRESETS_S
MaxPresets == 2
\* Ctrl+C presses during one run
MaxSigint == 2
\* angles of the calibration scan
MaxCalAngles == 2
\* acquisition attempts of one scan that may end in an operator [R]etry
MaxAttempts == 3
\* largest smoothing window handed to smooth
MaxWindow == 6

(***************************************************************************)
(* Objects as LabAutomation.__init__ and the controllers' __init__ leave   *)
(* them                                                                    *)
(***************************************************************************)
\* ElliptecMotorController: created = the object exists; port = the serial
\* port held by elliptec.Controller; at_home = the stage is at its zero stop
NoMotor == [created |-> FALSE, port |-> "none", connected |-> FALSE, at_home |-> FALSE]
\* SapphirePulserController: output = system state of the pulse generator
NoPulser == [created |-> FALSE, port |-> "none", connected |-> FALSE, output |-> 0]
\* HoribaSpectrometerController: comms = the COM links of CCD and monochromator
NoSpectrometer == [created |-> FALSE, comms |-> "none"]
NoFrame == [id |-> 0, time |-> 0, max_intensity |-> 0, background |-> "none",
            bg_time |-> 0]
NoCleanup == [ran |-> FALSE, faults |-> FALSE]

\* ExperimentHardware.__init__: no device, no port
NoHardware == [controller |-> "none", rotator |-> FALSE, pulser |-> "none",
               output |-> 0, meter |-> "none"]
NoExit == [ran |-> FALSE, motor_fault |-> FALSE, pulser_fault |-> FALSE,
           meter_fault |-> FALSE]

StartCalib ==
    /\ pcC = "enter"
    /\ hw = NoHardware
    /\ cal_i = 0
    /\ results = <<>>
    /\ cal_saved = <<>>
    /\ cal_exc = ""
    /\ exit_state = NoExit

StartScan ==
    /\ pcA = "create_dir"
    /\ motor_controller = NoMotor
    /\ pulser_controller = NoPulser
    /\ spectrometer_controller = NoSpectrometer
    /\ plot_fig = FALSE
    /\ shutdown_requested = FALSE
    /\ shutdown_event = FALSE
    /\ last_successful_integ_time_s = 0
    /\ background_cache = <<>>
    /\ point = 0
    /\ time_index = 0
    /\ retrying = FALSE
    /\ signal_frame = NoFrame
    /\ acq_log = <<>>
    /\ moved = <<>>
    /\ saved = <<>>
    /\ stop_chosen = 0
    /\ sigints = 0
    /\ exit_exc = ""
    /\ cleanup = NoCleanup

\* no file written yet by either analysis stage
NoManifest == [exists |-> FALSE, columns |-> {}, rows |-> <<>>]
NoCombined == [written |-> FALSE, Wavelength |-> <<>>, headers |-> <<>>, matrix |-> <<>>]
NoEstimatorInput == [called |-> FALSE, energy |-> <<>>, fwhm_values |-> <<>>]
NoFinalResults == [written |-> FALSE, rows |-> <<>>]

\* no function called yet
NoCall == [name |-> "", version |-> "", args |-> <<>>]

StartAnalysis ==
    /\ plots_saved = <<>>
    /\ fn_call = NoCall
    /\ fn_result = <<>>
    /\ pcN = "s2_load"
    /\ wavelengths = <<>>
    /\ optimized_matrix = <<>>
    /\ final_headers = <<>>
    /\ fwhm_list = <<>>
    /\ intensity_list = <<>>
    /\ estimator_input = NoEstimatorInput
    /\ final_results = NoFinalResults
    /\ ana_exc = ""

\* the analysis stages idle: no manifest, an empty data directory
IdleAnalysis ==
    /\ StartAnalysis
    /\ START_SMOOTHING_INDEX = 0
    /\ combined_csv = NoCombined
    /\ energy_manifest = NoManifest
    /\ raw_data = <<>>

NoOutcome == [kind |-> "none", v |-> 0, exc |-> ""]

\* no acquisition asked for yet
IdleAcquire ==
    /\ pcQ = "idle"
    /\ acq_request = [integration_time_s |-> 0, accumulations |-> 0]
    /\ elapsed_ms = 0
    /\ spectrum_id = -1
    /\ wait_outcome = NoOutcome
    /\ frame_outcome = NoOutcome

(***************************************************************************)
(* Extended rationals: [k, n, d] with k in {"fin","inf","nan","none"}      *)
(***************************************************************************)
RECURSIVE Gcd(_, _)
Gcd(a, b) == IF b = 0 THEN a ELSE Gcd(b, a % b)

Abs(x) == IF x < 0 THEN -x ELSE x
Sign(x) == IF x < 0 THEN -1 ELSE IF x > 0 THEN 1 ELSE 0

Fin(n, d) ==
    LET s == IF d < 0 THEN -1 ELSE 1
        g == Gcd(Abs(n), Abs(d))
    IN  [k |-> "fin", n |-> (s * n) \div g, d |-> (s * d) \div g]

F(n) == [k |-> "fin", n |-> n, d |-> 1]
Inf(s) == [k |-> "inf", n |-> s, d |-> 0]
NaN == [k |-> "nan", n |-> 0, d |-> 0]
NoneF == [k |-> "none", n |-> 0, d |-> 0]

IsFinite(a) == a.k = "fin"
IsZero(a) == a.k = "fin" /\ a.n = 0
FSign(a) == Sign(a.n)

\* numpy multiply: nan propagates, inf * 0 = nan
FMul(a, b) ==
    IF a.k = "nan" \/ b.k = "nan" THEN NaN
    ELSE IF a.k = "inf" \/ b.k = "inf"
         THEN IF FSign(a) * FSign(b) = 0 THEN NaN ELSE Inf(FSign(a) * FSign(b))
    ELSE IF a.n = 0 \/ b.n = 0 THEN F(0)
    ELSE LET g1 == Gcd(Abs(a.n), b.d)
             g2 == Gcd(Abs(b.n), a.d)
         IN  Fin((a.n \div g1) * (b.n \div g2), (a.d \div g2) * (b.d \div g1))

\* numpy true_divide: x/0 = +-inf, 0/0 = nan, a RuntimeWarning and no exception
FDiv(a, b) ==
    IF a.k = "nan" \/ b.k = "nan" THEN NaN
    ELSE IF a.k = "inf" THEN (IF b.k = "inf" THEN NaN
                              ELSE Inf(FSign(a) * (IF FSign(b) < 0 THEN -1 ELSE 1)))
    ELSE IF b.k = "inf" THEN F(0)
    ELSE IF b.n = 0 THEN (IF a.n = 0 THEN NaN ELSE Inf(FSign(a)))
    ELSE FMul(a, [k |-> "fin", n |-> Sign(b.n) * b.d, d |-> Abs(b.n)])

FAdd(a, b) ==
    IF a.k = "nan" \/ b.k = "nan" THEN NaN
    ELSE IF a.k = "inf" THEN (IF b.k = "inf" /\ b.n # a.n THEN NaN ELSE a)
    ELSE IF b.k = "inf" THEN b
    ELSE LET g == Gcd(a.d, b.d)
         IN  Fin(a.n * (b.d \div g) + b.n * (a.d \div g), (a.d \div g) * b.d)

FNeg(a) == [a EXCEPT !.n = -a.n]
FSub(a, b) == FAdd(a, FNeg(b))

\* a < b on finite values
FLess(a, b) == a.n * b.d < b.n * a.d

RECURSIVE Pow10(_)
Pow10(e) == IF e = 0 THEN F(1)
            ELSE IF e > 0 THEN FMul(F(10), Pow10(e - 1))
            ELSE FDiv(Pow10(e + 1), F(10))

SeqRange(s) == {s[i] : i \in 1..Len(s)}


(***************************************************************************)
(* STEP 1 : pure functions of step1_energy_calc.py                         *)
(***************************************************************************)
RAW_ENERGY_READ == 24
TRANSMISSION_LENS == Fin(959, 1000)
TARGET_WAVELENGTH == 337
SPOT_DIM_1_UM == 4000
SPOT_DIM_2_UM == 500
HEADER_SCAN_LINES == 20
MIN_CUBIC_POINTS == 4
\* math.pi, as a rational
Pi == Fin(355, 113)

\* str.lower() on the shape names the model draws
Lower(s) == CASE s = "Rectangle" -> "rectangle"
              [] s = "Circle" -> "circle"
              [] OTHER -> s

\* calculate_spot_area_cm2: the area, or ValueError for an unknown shape
calculate_spot_area_cm2(spot_shape) ==
    LET shape == Lower(spot_shape)
        d1 == F(SPOT_DIM_1_UM)
        d2 == F(SPOT_DIM_2_UM)
        half1 == FDiv(d1, F(2))
        half2 == FDiv(d2, F(2))
        um2cm2 == Fin(1, 100000000)
    IN  IF shape = "rectangle"
          THEN [ok |-> TRUE, area |-> FMul(FMul(d1, d2), um2cm2)]
        ELSE IF shape = "circle"
          THEN [ok |-> TRUE, area |-> FMul(FMul(Pi, FMul(half1, half1)), um2cm2)]
        ELSE IF shape = "ellipse"
          THEN [ok |-> TRUE, area |-> FMul(FMul(FMul(Pi, half1), half2), um2cm2)]
        ELSE [ok |-> FALSE, area |-> NoneF]

\* stable sort of a sequence of tuples <<key, ...>> by their first component
\* (sort_values(by='angle'))
RECURSIVE InsertBy(_, _)
InsertBy(r, s) ==
    IF s = <<>> THEN <<r>>
    ELSE IF r[1] < Head(s)[1] THEN <<r>> \o s
    ELSE <<Head(s)>> \o InsertBy(r, Tail(s))

RECURSIVE SortBy(_)
SortBy(s) ==
    IF s = <<>> THEN <<>>
    ELSE InsertBy(s[Len(s)], SortBy(SubSeq(s, 1, Len(s) - 1)))

RECURSIVE MaxOf(_)
MaxOf(s) == IF Len(s) = 1 THEN s[1]
            ELSE LET m == MaxOf(Tail(s)) IN IF s[1] > m THEN s[1] ELSE m

\* Calibration CSVs the model draws: rows are <<angle, energy_corrected_J>>
TableNormal == << <<0, 1>>, <<90, 5>>, <<180, 10>>, <<270, 5>> >>
TableUnsorted == << <<180, 10>>, <<0, 1>>, <<270, 5>>, <<90, 5>> >>
TableZeroAtRef == << <<0, 0>>, <<90, 5>>, <<180, 10>>, <<270, 5>> >>
TableZeroAtFile == << <<0, 10>>, <<90, 5>>, <<180, 0>>, <<270, 5>> >>
TableAllZero == << <<0, 0>>, <<90, 0>>, <<180, 0>>, <<270, 0>> >>
TableShort == << <<0, 1>>, <<90, 5>>, <<180, 10>> >>

CalibFiles ==
    { [found |-> FALSE, cols |-> FALSE, rows |-> <<>>],
      [found |-> TRUE, cols |-> FALSE, rows |-> TableNormal] }
    \cup { [found |-> TRUE, cols |-> TRUE, rows |-> t] :
             t \in {TableNormal, TableUnsorted, TableZeroAtRef, TableZeroAtFile,
                    TableAllZero, TableShort} }

NoCurve == <<>>


\* get_calibration_curve without the 'max_energy == 0' check: pandas divides
\* by zero without raising and the knots become nan
get_calibration_curve_NoMaxCheck(csv) ==
    IF ~csv.cols THEN [ok |-> FALSE, exc |-> "ValueError: columns", f |-> NoCurve]
    ELSE LET df == SortBy(csv.rows)
             max_energy == MaxOf([i \in 1..Len(df) |-> df[i][2]])
         IN  IF Len(df) < MIN_CUBIC_POINTS
               THEN [ok |-> FALSE, exc |-> "ValueError: interp1d", f |-> NoCurve]
             ELSE [ok |-> TRUE, exc |-> "",
                   f |-> [i \in 1..Len(df) |->
                            <<df[i][1], FDiv(F(df[i][2]), F(max_energy))>>]]

\* get_calibration_curve: ValueError for missing columns, for max energy 0,
\* and (raised by interp1d) for fewer than 4 points; else the normalised,
\* angle-sorted knots of the cubic interpolant
get_calibration_curve(csv) ==
    IF ~csv.cols THEN [ok |-> FALSE, exc |-> "ValueError: columns", f |-> NoCurve]
    ELSE LET df == SortBy(csv.rows)
             max_energy == MaxOf([i \in 1..Len(df) |-> df[i][2]])
         IN  IF max_energy = 0
               THEN [ok |-> FALSE, exc |-> "ValueError: max energy 0", f |-> NoCurve]
             ELSE IF Len(df) < MIN_CUBIC_POINTS
               THEN [ok |-> FALSE, exc |-> "ValueError: interp1d", f |-> NoCurve]
             ELSE [ok |-> TRUE, exc |-> "",
                   f |-> [i \in 1..Len(df) |-> <<df[i][1], Fin(df[i][2], max_energy)>>]]

\* interp1d(kind='cubic', fill_value='extrapolate') over four knots: the
\* not-a-knot spline through four points is the single cubic through them,
\* also outside the sampled range
RECURSIVE BasisNum(_, _, _, _)
BasisNum(f, i, j, x) ==
    IF j = 0 THEN 1
    ELSE (IF j = i THEN 1 ELSE x - f[j][1]) * BasisNum(f, i, j - 1, x)

RECURSIVE BasisDen(_, _, _)
BasisDen(f, i, j) ==
    IF j = 0 THEN 1
    ELSE (IF j = i THEN 1 ELSE f[i][1] - f[j][1]) * BasisDen(f, i, j - 1)

RECURSIVE CubicSum(_, _, _)
CubicSum(f, i, x) ==
    IF i = 0 THEN F(0)
    ELSE FAdd(FMul(f[i][2], Fin(BasisNum(f, i, Len(f), x), BasisDen(f, i, Len(f)))),
              CubicSum(f, i - 1, x))

calib_func(f, x) == CubicSum(f, Len(f), x)

\* Spectrum files: the header tag '# Angle (deg):' sits on line tagLine
\* (0: absent) and is followed by a number (num) or by text float() rejects
NoAngle == [some |-> FALSE, v |-> 0, raised |-> FALSE]
SomeAngle(a) == [some |-> TRUE, v |-> a, raised |-> FALSE]

FileAngles == {90, 180}

SpectrumBodies ==
    { [readable |-> TRUE, tagLine |-> 2, num |-> TRUE, v |-> a] : a \in FileAngles }
    \cup { [readable |-> FALSE, tagLine |-> 2, num |-> TRUE, v |-> 90],
           [readable |-> TRUE, tagLine |-> 0, num |-> TRUE, v |-> 90],
           [readable |-> TRUE, tagLine |-> 25, num |-> TRUE, v |-> 90],
           [readable |-> TRUE, tagLine |-> 2, num |-> FALSE, v |-> 0] }

\* get_angle_from_header without its try/except: open() and float() raise
get_angle_from_header_NoExcept(file) ==
    IF ~file.readable THEN [some |-> FALSE, v |-> 0, raised |-> TRUE]
    ELSE IF file.tagLine >= 1 /\ file.tagLine <= HEADER_SCAN_LINES
      THEN (IF file.num THEN SomeAngle(file.v)
            ELSE [some |-> FALSE, v |-> 0, raised |-> TRUE])
    ELSE NoAngle

\* get_angle_from_header: the number after the first tag within the first 20
\* lines; None when the file cannot be read, has no tag there, or float() fails
get_angle_from_header(file) ==
    IF ~file.readable THEN NoAngle
    ELSE IF file.tagLine >= 1 /\ file.tagLine <= HEADER_SCAN_LINES
      THEN (IF file.num THEN SomeAngle(file.v) ELSE NoAngle)
    ELSE NoAngle

\* Absorption files: a sequence of lines; a line is blank, a '#' comment,
\* or a list of tokens that are all numbers (nums) or not (text)
LBlank == [kind |-> "blank", nums |-> <<>>]
LComment == [kind |-> "comment", nums |-> <<>>]
LText == [kind |-> "text", nums |-> <<>>]
LNums(ns) == [kind |-> "nums", nums |-> ns]

AbsLinesA == << LComment, LText, LNums(<<400, 0>>), LBlank, LNums(<<337, 1>>), LNums(<<300, 2>>) >>
AbsLinesB == << LNums(<<336, 2, 7>>), LNums(<<338>>), LNums(<<338, 1>>) >>
AbsLinesNoData == << LComment, LText, LBlank, LNums(<<337>>) >>
AbsLinesNegative == << LNums(<<337, -1>>), LNums(<<500, 1>>) >>

AbsFiles ==
    { [found |-> FALSE, exists |-> FALSE, readable |-> FALSE, lines |-> <<>>],
      [found |-> TRUE, exists |-> FALSE, readable |-> FALSE, lines |-> <<>>],
      [found |-> TRUE, exists |-> TRUE, readable |-> FALSE, lines |-> <<>>] }
    \cup { [found |-> TRUE, exists |-> TRUE, readable |-> TRUE, lines |-> l] :
             l \in {AbsLinesA, AbsLinesB, AbsLinesNoData, AbsLinesNegative} }

\* load_spectrum_robust: the first two numbers of every all-numeric line with
\* at least two of them; ValueError when there is none
RECURSIVE DataRows(_)
DataRows(lines) ==
    IF lines = <<>> THEN <<>>
    ELSE LET l == Head(lines)
         IN  (IF l.kind = "nums" /\ Len(l.nums) >= 2
                THEN << <<l.nums[1], l.nums[2]>> >> ELSE <<>>)
             \o DataRows(Tail(lines))

load_spectrum_robust(file) ==
    LET data_rows == DataRows(file.lines)
    IN  IF ~file.readable THEN [ok |-> FALSE, data |-> <<>>]
        ELSE IF data_rows = <<>> THEN [ok |-> FALSE, data |-> <<>>]
        ELSE [ok |-> TRUE, data |-> data_rows]

\* np.argmin taking the last index of the minimum
ArgMin_Last(s) == CHOOSE i \in 1..Len(s) :
                     /\ \A j \in 1..Len(s) : s[i] <= s[j]
                     /\ \A j \in (i + 1)..Len(s) : s[j] > s[i]

\* np.argmin: the first index of the minimum
ArgMin(s) == CHOOSE i \in 1..Len(s) :
                /\ \A j \in 1..Len(s) : s[i] <= s[j]
                /\ \A j \in 1..(i - 1) : s[j] > s[i]

\* get_absorption_rate without its try/except: load_spectrum_robust's
\* exception leaves the function
get_absorption_rate_NoExcept(file) ==
    IF ~file.exists THEN [rate |-> F(0), warned |-> TRUE, raised |-> FALSE]
    ELSE LET r == load_spectrum_robust(file)
         IN  IF ~r.ok THEN [rate |-> F(0), warned |-> FALSE, raised |-> TRUE]
             ELSE LET d == r.data
                      idx == ArgMin([i \in 1..Len(d) |-> Abs(d[i][1] - TARGET_WAVELENGTH)])
                      abs_val == d[idx][2]
                  IN  [rate |-> FSub(F(1), Pow10(-abs_val)), warned |-> FALSE,
                       raised |-> FALSE]

\* get_absorption_rate: [rate, warned, raised]; every exception is caught
\* and answered by 0.0, so nothing is raised
get_absorption_rate(file) ==
    IF ~file.exists THEN [rate |-> F(0), warned |-> TRUE, raised |-> FALSE]
    ELSE LET r == load_spectrum_robust(file)
         IN  IF ~r.ok THEN [rate |-> F(0), warned |-> TRUE, raised |-> FALSE]
             ELSE LET d == r.data
                      idx == ArgMin([i \in 1..Len(d) |-> Abs(d[i][1] - TARGET_WAVELENGTH)])
                      abs_val == d[idx][2]
                  IN  [rate |-> FSub(F(1), Pow10(-abs_val)), warned |-> FALSE,
                       raised |-> FALSE]


(***************************************************************************)
(* STEP 1 : main()                                                         *)
(***************************************************************************)
Shapes == {"rectangle", "Circle", "ellipse", "square"}
Readings == { [raw |-> RAW_ENERGY_READ, od |-> 3], [raw |-> 0, od |-> 0] }
AngleRefs == {0, 180}
NoFile == [found |-> FALSE, exists |-> FALSE, readable |-> FALSE, lines |-> <<>>]
NoCsv == [found |-> FALSE, cols |-> FALSE, rows |-> <<>>]

\* the file lists os.listdir can return: up to MaxFiles spectrum files
FileLists == UNION { [1..n -> SpectrumBodies] : n \in 0..MaxFiles }

StartStep1 ==
    /\ pc1 = "start"
    /\ log1 = {}
    /\ exc1 = ""
    /\ SPOT_SHAPE = ""
    /\ stripe_area_cm2 = NoneF
    /\ E_ref = NoneF
    /\ calib_csv = NoCsv
    /\ calib_curve = NoCurve
    /\ trans_ref = NoneF
    /\ scale_factor = NoneF
    /\ abs_file = NoFile
    /\ absorption_rate = NoneF
    /\ files = <<>>
    /\ fidx = 0
    /\ skipped = {}
    /\ data_list = <<>>
    /\ df_results = <<>>
    /\ manifest_saved = FALSE

InitStep1 ==
    /\ IdleAcquire
    /\ StartStep1
    /\ StartScan /\ logger = "None"
    /\ StartCalib /\ cal_script = "Callibration"
    /\ IdleAnalysis

\* lines 191-204: BASE_DIR and DATA_DIR must exist
S1_CheckDirs ==
    /\ pc1 = "start"
    /\ \E base \in BOOLEAN, data \in BOOLEAN :
         IF base /\ data
           THEN pc1' = "geometry" /\ log1' = log1
           ELSE pc1' = "returned" /\ log1' = log1 \cup {"CRITICAL ERROR: directory not found"}
    /\ UNCHANGED othersStep1
    /\ UNCHANGED <<exc1, SPOT_SHAPE, stripe_area_cm2, E_ref, calib_csv, calib_curve,
                   trans_ref, scale_factor, abs_file, absorption_rate, files, fidx,
                   skipped, data_list, df_results, manifest_saved>>

\* lines 206-211: spot area, an unknown shape ends the run
S1_SpotArea ==
    /\ pc1 = "geometry"
    /\ \E shape \in Shapes :
         LET r == calculate_spot_area_cm2(shape)
         IN  /\ SPOT_SHAPE' = shape
             /\ IF r.ok
                  THEN /\ stripe_area_cm2' = r.area
                       /\ pc1' = "eref"
                       /\ log1' = log1
                  ELSE /\ stripe_area_cm2' = stripe_area_cm2
                       /\ pc1' = "returned"
                       /\ log1' = log1 \cup {"CRITICAL GEOMETRY ERROR"}
    /\ UNCHANGED othersStep1
    /\ UNCHANGED <<exc1, E_ref, calib_csv, calib_curve, trans_ref, scale_factor,
                   abs_file, absorption_rate, files, fidx, skipped, data_list,
                   df_results, manifest_saved>>

\* lines 213-217: E_ref = Reading * 10^OD * Lens_Transmission
S1_RefEnergy ==
    /\ pc1 = "eref"
    /\ \E c \in Readings :
         E_ref' = FMul(FMul(F(c.raw), Pow10(c.od)), TRANSMISSION_LENS)
    /\ pc1' = "find_calib"
    /\ UNCHANGED othersStep1
    /\ UNCHANGED <<log1, exc1, SPOT_SHAPE, stripe_area_cm2, calib_csv, calib_curve,
                   trans_ref, scale_factor, abs_file, absorption_rate, files, fidx,
                   skipped, data_list, df_results, manifest_saved>>

\* lines 219-223: no calibration file ends the run
S1_FindCalibration ==
    /\ pc1 = "find_calib"
    /\ \E csv \in CalibFiles :
         /\ calib_csv' = csv
         /\ IF csv.found
              THEN pc1' = "load_calib" /\ log1' = log1
              ELSE /\ pc1' = "returned"
                   /\ log1' = log1 \cup {"CRITICAL ERROR: Calibration file missing"}
    /\ UNCHANGED othersStep1
    /\ UNCHANGED <<exc1, SPOT_SHAPE, stripe_area_cm2, E_ref, calib_curve, trans_ref,
                   scale_factor, abs_file, absorption_rate, files, fidx, skipped,
                   data_list, df_results, manifest_saved>>

\* lines 225-226: get_calibration_curve is called outside any try
S1_LoadCalibration ==
    /\ pc1 = "load_calib"
    /\ LET r == get_calibration_curve(calib_csv)
       IN  IF r.ok
             THEN calib_curve' = r.f /\ pc1' = "scale" /\ exc1' = exc1
             ELSE calib_curve' = calib_curve /\ pc1' = "crashed" /\ exc1' = r.exc
    /\ UNCHANGED othersStep1
    /\ UNCHANGED <<log1, SPOT_SHAPE, stripe_area_cm2, E_ref, calib_csv, trans_ref,
                   scale_factor, abs_file, absorption_rate, files, fidx, skipped,
                   data_list, df_results, manifest_saved>>

\* lines 228-230: trans_ref is a numpy value, so the division does not raise
ScaleFactor(e_ref, t_ref) == [raised |-> FALSE, value |-> FDiv(e_ref, t_ref)]

S1_ScaleFactor ==
    /\ pc1 = "scale"
    /\ \E ANGLE_REF \in AngleRefs :
         LET t == calib_func(calib_curve, ANGLE_REF)
             r == ScaleFactor(E_ref, t)
         IN  /\ trans_ref' = t
             /\ IF r.raised
                  THEN /\ scale_factor' = scale_factor
                       /\ pc1' = "crashed"
                       /\ exc1' = "ZeroDivisionError"
                  ELSE /\ scale_factor' = r.value
                       /\ pc1' = "absorption"
                       /\ exc1' = exc1
    /\ UNCHANGED othersStep1
    /\ UNCHANGED <<log1, SPOT_SHAPE, stripe_area_cm2, E_ref, calib_csv, calib_curve,
                   abs_file, absorption_rate, files, fidx, skipped, data_list,
                   df_results, manifest_saved>>

\* lines 232-238: absorption rate, 0.0 with a warning when there is no file
S1_Absorption ==
    /\ pc1 = "absorption"
    /\ \E af \in AbsFiles :
         /\ abs_file' = af
         /\ IF af.found
              THEN LET r == get_absorption_rate(af)
                   IN  IF r.raised
                         THEN /\ pc1' = "crashed"
                              /\ exc1' = "Exception: absorption"
                              /\ UNCHANGED <<absorption_rate, log1>>
                         ELSE /\ pc1' = "listdir"
                              /\ exc1' = exc1
                              /\ absorption_rate' = r.rate
                              /\ log1' = IF r.warned
                                           THEN log1 \cup {"WARNING: absorption"}
                                           ELSE log1
              ELSE /\ pc1' = "listdir"
                   /\ exc1' = exc1
                   /\ absorption_rate' = F(0)
                   /\ log1' = log1 \cup {"WARNING: absorption"}
    /\ UNCHANGED othersStep1
    /\ UNCHANGED <<SPOT_SHAPE, stripe_area_cm2, E_ref, calib_csv, calib_curve,
                   trans_ref, scale_factor, files, fidx, skipped, data_list,
                   df_results, manifest_saved>>

\* lines 240-251: list the spectrum files, none ends the run
S1_ListFiles ==
    /\ pc1 = "listdir"
    /\ \E fl \in FileLists :
         /\ files' = fl
         /\ IF fl = <<>>
              THEN pc1' = "returned" /\ log1' = log1 \cup {"No spectrum files found"}
              ELSE pc1' = "scan" /\ log1' = log1
    /\ fidx' = 1
    /\ UNCHANGED othersStep1
    /\ UNCHANGED <<exc1, SPOT_SHAPE, stripe_area_cm2, E_ref, calib_csv, calib_curve,
                   trans_ref, scale_factor, abs_file, absorption_rate, skipped,
                   data_list, df_results, manifest_saved>>

\* lines 253-263: one iteration of 'for f in files'; the filename is the
\* position in the listing
S1_ScanFile ==
    /\ pc1 = "scan"
    /\ fidx <= Len(files)
    /\ LET angle == get_angle_from_header(files[fidx])
       IN  IF angle.raised
             THEN /\ pc1' = "crashed"
                  /\ exc1' = "Exception: header"
                  /\ UNCHANGED <<data_list, skipped, fidx>>
             ELSE /\ exc1' = exc1
                  /\ fidx' = fidx + 1
                  /\ pc1' = IF fidx = Len(files) THEN "after_scan" ELSE "scan"
                  /\ IF angle.some
                       THEN /\ data_list' = Append(data_list,
                                                   [filename |-> fidx, angle |-> angle.v])
                            /\ skipped' = skipped
                       ELSE /\ data_list' = data_list
                            /\ skipped' = skipped \cup {fidx}
    /\ UNCHANGED othersStep1
    /\ UNCHANGED <<log1, SPOT_SHAPE, stripe_area_cm2, E_ref, calib_csv, calib_curve,
                   trans_ref, scale_factor, abs_file, absorption_rate, files,
                   df_results, manifest_saved>>

\* lines 270-283: sort by angle and compute the physics columns
PhysicsRow(r, scale, rate, area, curve) ==
    LET energy_nJ == FMul(scale, calib_func(curve, r.angle))
        absorbed_energy_nJ == FMul(energy_nJ, rate)
    IN  [filename |-> r.filename, angle |-> r.angle,
         energy_nJ |-> energy_nJ,
         absorbed_energy_nJ |-> absorbed_energy_nJ,
         fluence_uJ_cm2 |-> FDiv(FMul(absorbed_energy_nJ, Fin(1, 1000)), area)]

BuildResults(dl, scale, rate, area, curve) ==
    LET keyed  == [i \in 1..Len(dl) |-> <<dl[i].angle, dl[i]>>]
        sorted == SortBy(keyed)
    IN  [i \in 1..Len(sorted) |-> PhysicsRow(sorted[i][2], scale, rate, area, curve)]

\* lines 265-283: no angle from any file ends the run; else build the table
S1_Compute ==
    /\ pc1 = "after_scan"
    /\ IF data_list = <<>>
         THEN /\ pc1' = "returned"
              /\ log1' = log1 \cup {"CRITICAL ERROR: Could not extract angles from ANY files"}
              /\ df_results' = df_results
         ELSE /\ pc1' = "save"
              /\ log1' = log1
              /\ df_results' = BuildResults(data_list, scale_factor, absorption_rate,
                                            stripe_area_cm2, calib_curve)
    /\ UNCHANGED othersStep1
    /\ UNCHANGED <<exc1, SPOT_SHAPE, stripe_area_cm2, E_ref, calib_csv, calib_curve,
                   trans_ref, scale_factor, abs_file, absorption_rate, files, fidx,
                   skipped, data_list, manifest_saved>>

\* lines 285-288: df_results.to_csv
S1_SaveManifest ==
    /\ pc1 = "save"
    /\ manifest_saved' = TRUE
    /\ pc1' = "done"
    /\ UNCHANGED othersStep1
    /\ UNCHANGED <<log1, exc1, SPOT_SHAPE, stripe_area_cm2, E_ref, calib_csv,
                   calib_curve, trans_ref, scale_factor, abs_file, absorption_rate,
                   files, fidx, skipped, data_list, df_results>>

NextStep1 ==
    \/ S1_CheckDirs
    \/ S1_SpotArea
    \/ S1_RefEnergy
    \/ S1_FindCalibration
    \/ S1_LoadCalibration
    \/ S1_ScaleFactor
    \/ S1_Absorption
    \/ S1_ListFiles
    \/ S1_ScanFile
    \/ S1_Compute
    \/ S1_SaveManifest

SpecStep1 == InitStep1 /\ [][NextStep1]_vars


(***************************************************************************)
(* STEP 1 : claims                                                         *)
(***************************************************************************)
Ended1 == pc1 \in {"done", "returned", "crashed"}

\* C1: when the calibration curve evaluated at the reference angle is 0 the
\* run aborts and writes no manifest: a manifest is only ever written with a
\* nonzero reference transmission, and it never holds an infinite or nan
\* scale factor, energy or fluence.
C1_ZeroReferenceAborts ==
    manifest_saved =>
        /\ ~IsZero(trans_ref)
        /\ IsFinite(scale_factor)
        /\ \A i \in 1..Len(df_results) :
              /\ IsFinite(df_results[i].energy_nJ)
              /\ IsFinite(df_results[i].fluence_uJ_cm2)

\* C4: after Step 1 the manifest rows have strictly increasing angles and no
\* filename occurs twice, for every set of discovered files.
C4_ManifestStrictlySorted ==
    manifest_saved =>
        /\ \A i \in 1..(Len(df_results) - 1) :
              df_results[i].angle < df_results[i + 1].angle
        /\ \A i, j \in 1..Len(df_results) :
              df_results[i].filename = df_results[j].filename => i = j

\* C8: Step 1 stops before the manifest in each fatal case (maximum calibration
\* energy 0, unknown spot shape, no calibration file), with the error reported
\* and no default substituted for the missing quantity.
UnknownShape == SPOT_SHAPE # "" /\ Lower(SPOT_SHAPE) \notin {"rectangle", "circle", "ellipse"}
CalibMissing == E_ref # NoneF /\ pc1 # "find_calib" /\ ~calib_csv.found
MaxEnergyZero ==
    /\ calib_csv.found /\ calib_csv.cols
    /\ \A i \in 1..Len(calib_csv.rows) : calib_csv.rows[i][2] = 0
    /\ pc1 # "load_calib"

C8_FatalCasesStop ==
    /\ UnknownShape =>
          /\ pc1 = "returned"
          /\ "CRITICAL GEOMETRY ERROR" \in log1
          /\ stripe_area_cm2 = NoneF
          /\ ~manifest_saved
    /\ CalibMissing =>
          /\ pc1 = "returned"
          /\ "CRITICAL ERROR: Calibration file missing" \in log1
          /\ calib_curve = NoCurve /\ scale_factor = NoneF
          /\ ~manifest_saved
    /\ MaxEnergyZero =>
          /\ pc1 = "crashed"
          /\ exc1 = "ValueError: max energy 0"
          /\ calib_curve = NoCurve /\ scale_factor = NoneF
          /\ ~manifest_saved

C8_Witness == pc1 = "crashed" /\ MaxEnergyZero /\ exc1 = "ValueError: max energy 0"

\* C9: a missing, unreadable or number-free absorption file gives rate 0.0 with
\* a warning, raises nothing, and the run goes on to write the manifest (it
\* ends without one only for want of spectrum files with an angle).
AbsorptionDone == pc1 \in {"listdir", "scan", "after_scan", "save", "done", "returned"}
                  /\ absorption_rate # NoneF
AbsorptionUnusable ==
    \/ ~abs_file.found
    \/ ~abs_file.exists
    \/ ~abs_file.readable
    \/ \A i \in 1..Len(abs_file.lines) :
          ~(abs_file.lines[i].kind = "nums" /\ Len(abs_file.lines[i].nums) >= 2)
PastAbsorption == scale_factor # NoneF /\ pc1 # "absorption"

C9_AbsorptionDefaultsToZero ==
    (PastAbsorption /\ AbsorptionUnusable) =>
        /\ absorption_rate = F(0)
        /\ "WARNING: absorption" \in log1
        /\ pc1 # "crashed"
        /\ pc1 = "returned" =>
              \/ "No spectrum files found" \in log1
              \/ "CRITICAL ERROR: Could not extract angles from ANY files" \in log1
        /\ pc1 = "done" =>
              /\ manifest_saved
              /\ \A i \in 1..Len(df_results) :
                    df_results[i].absorbed_energy_nJ = FMul(df_results[i].energy_nJ, F(0))

C9_Witness ==
    /\ manifest_saved
    /\ abs_file.found /\ abs_file.exists /\ abs_file.readable
    /\ abs_file.lines = AbsLinesNoData
    /\ absorption_rate = F(0)

\* C10: a file whose angle cannot be determined is skipped with a warning and
\* left out of the manifest, every file whose angle can be determined is in
\* the manifest exactly once, and one bad file never aborts the run.
Determinable(file) ==
    file.readable /\ file.tagLine \in 1..HEADER_SCAN_LINES /\ file.num
ScanEnded == pc1 \in {"done", "returned", "crashed"} /\ files # <<>>
GoodFiles == {i \in 1..Len(files) : Determinable(files[i])}
BadFiles == {i \in 1..Len(files) : ~Determinable(files[i])}
ManifestIsGoodFiles ==
    /\ manifest_saved
    /\ \A i \in GoodFiles :
          Cardinality({k \in 1..Len(df_results) :
                         /\ df_results[k].filename = i
                         /\ df_results[k].angle = files[i].v}) = 1
    /\ \A k \in 1..Len(df_results) : df_results[k].filename \in GoodFiles
    /\ Len(df_results) = Cardinality(GoodFiles)
    /\ skipped = BadFiles

\* the claim as stated: the manifest is written whatever the files are
C10_BadFileNeverAborts == ScanEnded => (pc1 = "done" /\ ManifestIsGoodFiles)

\* amended: ... provided at least one file has a determinable angle; when none
\* has, every file is skipped and the run stops with a critical error and no
\* manifest. No file raises.
C10_BadFilesSkipped ==
    ScanEnded =>
        /\ pc1 # "crashed"
        /\ GoodFiles # {} => (pc1 = "done" /\ ManifestIsGoodFiles)
        /\ GoodFiles = {} =>
              /\ pc1 = "returned"
              /\ ~manifest_saved
              /\ skipped = BadFiles
              /\ "CRITICAL ERROR: Could not extract angles from ANY files" \in log1

C10_Witness ==
    /\ pc1 = "done" /\ manifest_saved
    /\ GoodFiles # {} /\ BadFiles # {}
    /\ \E i \in BadFiles : ~files[i].readable



(***************************************************************************)
(* ANGLE SCAN : main_measurement.py, LabAutomation                         *)
(***************************************************************************)
\* INTEGRATION_TIME_PRESETS_S in milliseconds, cut to its first MaxPresets
INTEGRATION_TIME_PRESETS_S == SubSeq(<<1000, 800, 500, 200, 100>>, 1, MaxPresets)

INTEGRATION_WARNING_THRESHOLD == 50000
SATURATION_THRESHOLD == 65530
\* np.max of the raw signal frame: values around the two thresholds
MaxIntensities == {49999, 50000, 65529, 65530}

\* list.index(x): position of x, 0 standing for the ValueError of a value
\* that is not in the list
Index(list, x) ==
    IF \E i \in 1..Len(list) : list[i] = x
      THEN CHOOSE i \in 1..Len(list) : list[i] = x /\ \A j \in 1..(i - 1) : list[j] # x
      ELSE 0

\* texts as sequences of characters
UserStopMessage ==
    <<"U", "s", "e", "r", " ", "c", "h", "o", "s", "e", " ", "t", "o", " ",
      "s", "t", "o", "p", ".">>
StopNeedle ==
    <<"u", "s", "e", "r", " ", "c", "h", "o", "s", "e", " ", "t", "o", " ",
      "s", "t", "o", "p">>
\* the text of an error raised by a device library
DeviceErrorMessage == <<"t", "i", "m", "e", "o", "u", "t">>

\* needle in text (str.__contains__, case sensitive)
Contains(needle, text) ==
    \E i \in 1..(Len(text) - Len(needle) + 1) :
        SubSeq(text, i, i + Len(needle) - 1) = needle

\* _run_angle_scan lines 561-568: what the loop does with an exception that
\* _run_single_point raised
AfterPointException(message, requested, event) ==
    IF Contains(StopNeedle, message) \/ requested \/ event
      THEN "break" ELSE "continue"

scanDevices == <<motor_controller, pulser_controller, spectrometer_controller>>
scanFlags == <<shutdown_requested, shutdown_event, sigints>>
scanPoint == <<last_successful_integ_time_s, background_cache, point, time_index,
               retrying, signal_frame, acq_log, moved, saved, stop_chosen>>

InitScan ==
    /\ IdleAcquire
    /\ StartScan
    /\ StartStep1
    /\ StartCalib /\ cal_script = "Callibration"
    /\ IdleAnalysis
    \* run() is entered on the object __init__ built (logger None); the paths
    \* of run() behind _save_code_snapshot are reached only by an object whose
    \* logger attribute was set before run()
    /\ logger \in {"None", "Logger"}

\* run() line 606 with _create_measurement_dir (lines 176-206) and
\* _save_code_snapshot (149-174): the snapshot logs through self.logger in its
\* try and in its except clause
create_measurement_dir ==
    /\ pcA = "create_dir"
    /\ \E makedirs_ok \in BOOLEAN :
         IF ~makedirs_ok
           THEN pcA' = "finally" /\ exit_exc' = "OSError"
           ELSE IF logger = "None"
                  THEN pcA' = "finally" /\ exit_exc' = "AttributeError"
                  ELSE pcA' = "setup_logging" /\ exit_exc' = exit_exc
    /\ UNCHANGED <<logger, plot_fig, cleanup>>
    /\ UNCHANGED <<scanDevices, scanFlags, scanPoint, othersScan>>

\* run() lines 607-608: _setup_logging (101-130) leaves logger None when it
\* fails; then the SIGINT handler is installed
setup_logging ==
    /\ pcA = "setup_logging"
    /\ \E ok \in BOOLEAN : logger' = IF ok THEN "Logger" ELSE "None"
    /\ pcA' = "connect"
    /\ UNCHANGED <<plot_fig, cleanup, exit_exc>>
    /\ UNCHANGED <<scanDevices, scanFlags, scanPoint, othersScan>>

\* how far _connect_hardware gets before a device raises
ConnectOutcomes ==
    {"motor_port", "motor_init", "pulser_port", "pulser_config", "spectrometer", "ok"}

\* ElliptecMotorController.connect (elliptec_motor_controller.py 21-35):
\* connected becomes True only after Controller and Rotator were both built
MotorAfterConnect(outcome) ==
    IF outcome = "motor_port"
      THEN [created |-> TRUE, port |-> "none", connected |-> FALSE, at_home |-> FALSE]
    ELSE IF outcome = "motor_init"
      THEN [created |-> TRUE, port |-> "open", connected |-> FALSE, at_home |-> FALSE]
    ELSE [created |-> TRUE, port |-> "open", connected |-> TRUE, at_home |-> FALSE]

\* SapphirePulserController.connect (sapphire_pulser_controller.py 27-64):
\* connected becomes True only after the whole configuration went through
PulserAfterConnect(outcome) ==
    IF outcome \in {"motor_port", "motor_init"} THEN NoPulser
    ELSE IF outcome = "pulser_port"
      THEN [created |-> TRUE, port |-> "none", connected |-> FALSE, output |-> 0]
    ELSE IF outcome = "pulser_config"
      THEN [created |-> TRUE, port |-> "open", connected |-> FALSE, output |-> 0]
    ELSE [created |-> TRUE, port |-> "open", connected |-> TRUE, output |-> 0]

\* HoribaSpectrometerController.connect_all (177-186)
SpectrometerAfterConnect(outcome) ==
    IF outcome \in {"spectrometer", "ok"}
      THEN [created |-> TRUE, comms |-> "open"]
      ELSE NoSpectrometer

\* run() line 609, _connect_hardware (210-226).  With logger None the first
\* statement of ElliptecMotorController.connect raises AttributeError, and so
\* does the except clause of _connect_hardware.
connect_hardware ==
    /\ pcA = "connect"
    /\ IF logger = "None"
         THEN /\ motor_controller' = [NoMotor EXCEPT !.created = TRUE]
              /\ UNCHANGED <<pulser_controller, spectrometer_controller>>
              /\ pcA' = "finally"
              /\ exit_exc' = "AttributeError"
         ELSE \E outcome \in ConnectOutcomes :
              /\ motor_controller' = MotorAfterConnect(outcome)
              /\ pulser_controller' = PulserAfterConnect(outcome)
              /\ spectrometer_controller' = SpectrometerAfterConnect(outcome)
              /\ IF outcome = "ok"
                   THEN pcA' = "setup_state" /\ exit_exc' = exit_exc
                   ELSE pcA' = "finally" /\ exit_exc' = "Exception"
    /\ UNCHANGED <<logger, plot_fig, cleanup>>
    /\ UNCHANGED <<scanFlags, scanPoint, othersScan>>

\* run() lines 610-626: _setup_spectrometer_state (228-234) and the plot window
setup_spectrometer_state ==
    /\ pcA = "setup_state"
    /\ \E outcome \in {"state_fail", "plot_fail", "ok"} :
         /\ plot_fig' = (outcome # "state_fail")
         /\ IF outcome = "ok"
              THEN pcA' = "scan_start" /\ exit_exc' = exit_exc
              ELSE pcA' = "finally" /\ exit_exc' = "Exception"
    /\ UNCHANGED <<logger, cleanup>>
    /\ UNCHANGED <<scanDevices, scanFlags, scanPoint, othersScan>>

\* _run_angle_scan lines 531-552: initial guess, position list, homing
run_angle_scan ==
    /\ pcA = "scan_start"
    /\ last_successful_integ_time_s' = INTEGRATION_TIME_PRESETS_S[1]
    /\ \E home_ok \in BOOLEAN :
         IF home_ok
           THEN /\ motor_controller' = [motor_controller EXCEPT !.at_home = TRUE]
                /\ point' = 1
                /\ pcA' = "loop_head"
                /\ exit_exc' = exit_exc
           ELSE /\ UNCHANGED <<motor_controller, point>>
                /\ pcA' = "finally"
                /\ exit_exc' = "Exception"
    /\ UNCHANGED <<logger, plot_fig, cleanup, pulser_controller, spectrometer_controller>>
    /\ UNCHANGED <<background_cache, time_index, retrying, signal_frame, acq_log,
                   moved, saved, stop_chosen>>
    /\ UNCHANGED <<scanFlags, othersScan>>

\* how one pass of the loop body of _run_angle_scan ends: "break" leaves the
\* loop, "continue" and "return" go on to the next point
EndPoint(decision) ==
    IF decision = "break"
      THEN pcA' = "finally" /\ point' = point
      ELSE pcA' = "loop_head" /\ point' = point + 1

\* the point recorded for the first "User selected [S]top" of the log
StopAt(p) == IF stop_chosen = 0 THEN p ELSE stop_chosen

\* _run_angle_scan lines 554-557 and 570: loop exhausted, or shutdown flag seen
scan_loop_head ==
    /\ pcA = "loop_head"
    /\ IF point > MaxPoints \/ shutdown_requested \/ shutdown_event
         THEN pcA' = "finally"
         ELSE pcA' = "move"
    /\ UNCHANGED <<logger, plot_fig, cleanup, exit_exc>>
    /\ UNCHANGED <<scanDevices, scanFlags, scanPoint, othersScan>>

\* a scan that starts every angle from the longest preset
StartIndex_Longest(last) == 1

\* _run_single_point lines 284-304: move the motor, choose the starting preset
StartIndex(last) ==
    IF last = 0 \/ Index(INTEGRATION_TIME_PRESETS_S, last) = 0
      THEN 1 ELSE Index(INTEGRATION_TIME_PRESETS_S, last)

move_motor ==
    /\ pcA = "move"
    /\ \E move_ok \in BOOLEAN :
         IF move_ok
           THEN /\ motor_controller' = [motor_controller EXCEPT !.at_home = FALSE]
                /\ moved' = Append(moved, point)
                /\ time_index' = StartIndex(last_successful_integ_time_s)
                /\ retrying' = FALSE
                /\ pcA' = "acquire"
                /\ point' = point
           ELSE /\ UNCHANGED <<motor_controller, moved, time_index, retrying>>
                /\ EndPoint(AfterPointException(DeviceErrorMessage,
                                                 shutdown_requested, shutdown_event))
    /\ UNCHANGED <<logger, plot_fig, cleanup, exit_exc, pulser_controller,
                   spectrometer_controller>>
    /\ UNCHANGED <<last_successful_integ_time_s, background_cache, signal_frame,
                   acq_log, saved, stop_chosen>>
    /\ UNCHANGED <<scanFlags, othersScan>>

\* a cache that forgets what it is given
CachePut_Forget(cache, t, frame) == cache

\* background_cache[t] = frame
CachePut(cache, t, frame) ==
    [x \in DOMAIN cache \cup {t} |-> IF x = t THEN frame ELSE cache[x]]

\* a test that lets the threshold value itself pass
HardSaturated_Above(max_intensity) == max_intensity > SATURATION_THRESHOLD

\* line 341: the hard saturation test on the raw maximum
HardSaturated(max_intensity) == max_intensity >= SATURATION_THRESHOLD

\* where one attempt meets a device error: nowhere, in the signal acquisition
\* (lines 323-337), in remove_spectrum of a saturated frame (344), in the
\* background acquisition (362-372), in reading the background back (382)
AttemptFaults == {"none", "signal", "remove", "dark", "data"}

\* how the try body of lines 319-390 ends: "good" (break with success),
\* "saturated" (StopIteration) or "error" (any other exception)
AttemptResult(max_intensity, fault, hit) ==
    IF fault = "signal" THEN "error"
    ELSE IF HardSaturated(max_intensity)
      THEN (IF fault = "remove" THEN "error" ELSE "saturated")
    ELSE IF ~hit /\ fault \in {"dark", "data"} THEN "error"
    ELSE "good"

\* the background of one attempt (lines 349-386): none asked for, the cached
\* one, a new one stored in the cache, or a new one that was acquired and
\* never stored because reading it back failed
AttemptDark(max_intensity, fault, hit) ==
    IF fault = "signal" \/ HardSaturated(max_intensity) THEN "none"
    ELSE IF hit THEN "Cached"
    ELSE IF fault = "dark" THEN "none"
    ELSE IF fault = "data" THEN "Lost"
    ELSE "New"

\* a hard-saturated signal frame that is still in LabSpec memory when the
\* attempt is over: remove_spectrum of line 344 raised, and the handler of
\* lines 397-401 (set_state(0), remove_spectrum, bare except) did not remove
\* it either
SaturatedLeft(max_intensity, fault, again) ==
    HardSaturated(max_intensity) /\ fault = "remove" /\ ~again

\* the record of one attempt: the angle, current_integ_time, the stored
\* guess the angle started from, how the try body ended, the background
\* used, whether the frame was hard-saturated, whether such a frame was left
AttemptRecord(p, t, max_intensity, fault, hit, again) ==
    [point |-> p, time |-> t, guess |-> last_successful_integ_time_s,
     result |-> AttemptResult(max_intensity, fault, hit),
     dark |-> AttemptDark(max_intensity, fault, hit),
     hard |-> fault # "signal" /\ HardSaturated(max_intensity),
     left |-> SaturatedLeft(max_intensity, fault, again)]

\* _run_single_point lines 311-407: one attempt at current_integ_time
acquire_time ==
    /\ pcA = "acquire"
    /\ IF ~retrying /\ shutdown_event
         THEN \* line 312: return
              /\ EndPoint("return")
              /\ UNCHANGED <<pulser_controller, background_cache, time_index,
                             retrying, signal_frame, acq_log, shutdown_event,
                             stop_chosen>>
         ELSE \E fault \in AttemptFaults, max_intensity \in MaxIntensities,
                 answer \in {"R", "S"}, again \in BOOLEAN :
              LET t == INTEGRATION_TIME_PRESETS_S[time_index]
                  hit == t \in DOMAIN background_cache
                  id == Len(acq_log) + 1
                  result == AttemptResult(max_intensity, fault, hit)
              IN  /\ acq_log' = Append(acq_log,
                         AttemptRecord(point, t, max_intensity, fault, hit, again))
                  /\ IF result = "good"
                       THEN \* lines 322-390
                            /\ pulser_controller' =
                                  [pulser_controller EXCEPT !.output = IF hit THEN 1 ELSE 0]
                            /\ background_cache' =
                                  IF hit THEN background_cache
                                  ELSE CachePut(background_cache, t, [time |-> t, id |-> id])
                            /\ signal_frame' =
                                  [id |-> id, time |-> t, max_intensity |-> max_intensity,
                                   background |-> IF hit THEN "Cached" ELSE "New",
                                   bg_time |-> IF hit THEN background_cache[t].time ELSE t]
                            /\ pcA' = "process"
                            /\ UNCHANGED <<point, time_index, retrying, shutdown_event,
                                           stop_chosen>>
                     ELSE IF result = "saturated"
                       THEN \* lines 341-346, 392-393: StopIteration, next preset
                            /\ pulser_controller' = [pulser_controller EXCEPT !.output = 1]
                            /\ retrying' = FALSE
                            /\ IF time_index < Len(INTEGRATION_TIME_PRESETS_S)
                                 THEN time_index' = time_index + 1 /\ pcA' = "acquire"
                                 ELSE time_index' = time_index /\ pcA' = "all_failed"
                            /\ UNCHANGED <<point, background_cache, signal_frame,
                                           shutdown_event, stop_chosen>>
                     ELSE \* lines 395-404: error, pulser off, ask the operator
                          /\ pulser_controller' = [pulser_controller EXCEPT !.output = 0]
                          /\ IF answer = "R"
                               THEN /\ Len(acq_log) < MaxAttempts
                                    /\ retrying' = TRUE
                                    /\ UNCHANGED <<pcA, point, shutdown_event, stop_chosen>>
                               ELSE /\ shutdown_event' = TRUE
                                    /\ stop_chosen' = StopAt(point)
                                    /\ retrying' = retrying
                                    /\ EndPoint(AfterPointException(UserStopMessage,
                                                                     shutdown_requested, TRUE))
                          /\ UNCHANGED <<background_cache, time_index, signal_frame>>
    /\ UNCHANGED <<logger, plot_fig, cleanup, exit_exc, motor_controller,
                   spectrometer_controller>>
    /\ UNCHANGED <<last_successful_integ_time_s, moved, saved>>
    /\ UNCHANGED <<shutdown_requested, sigints, othersScan>>

\* _run_single_point lines 409-417: every preset failed, ask the operator
all_presets_failed ==
    /\ pcA = "all_failed"
    /\ \E answer \in {"R", "S"} :
         IF answer = "S"
           THEN /\ stop_chosen' = StopAt(point)
                /\ EndPoint(AfterPointException(UserStopMessage,
                                                 shutdown_requested, shutdown_event))
                /\ UNCHANGED last_successful_integ_time_s
           ELSE /\ last_successful_integ_time_s' = INTEGRATION_TIME_PRESETS_S[1]
                /\ EndPoint("return")
                /\ UNCHANGED stop_chosen
    /\ UNCHANGED <<logger, plot_fig, cleanup, exit_exc>>
    /\ UNCHANGED <<background_cache, time_index, retrying, signal_frame, acq_log,
                   moved, saved>>
    /\ UNCHANGED <<scanDevices, scanFlags, othersScan>>

Min(a, b) == IF a < b THEN a ELSE b

\* a state update that always goes back to the longest preset
NextGuess_Longest(frame) == INTEGRATION_TIME_PRESETS_S[1]

\* _run_single_point lines 425-435: the guess for the next angle
NextGuess(frame) ==
    LET current_index == Index(INTEGRATION_TIME_PRESETS_S, frame.time)
        next_index == IF frame.max_intensity >= INTEGRATION_WARNING_THRESHOLD
                        THEN Min(current_index + 1, Len(INTEGRATION_TIME_PRESETS_S))
                        ELSE current_index
    IN  INTEGRATION_TIME_PRESETS_S[next_index]

\* _run_single_point lines 421-507: state update, denoise, subtract, save;
\* a failure asks the operator; the finally clause drops the frames
process_and_save ==
    /\ pcA = "process"
    /\ last_successful_integ_time_s' = NextGuess(signal_frame)
    /\ \E ok \in BOOLEAN, answer \in {"R", "S"} :
         IF ok
           THEN /\ saved' = Append(saved, [point |-> point, frame |-> signal_frame])
                /\ EndPoint("return")
                /\ UNCHANGED stop_chosen
           ELSE /\ saved' = saved
                /\ IF answer = "S"
                     THEN /\ stop_chosen' = StopAt(point)
                          /\ EndPoint(AfterPointException(UserStopMessage,
                                           shutdown_requested, shutdown_event))
                     ELSE /\ EndPoint("return")
                          /\ UNCHANGED stop_chosen
    /\ signal_frame' = NoFrame
    /\ UNCHANGED <<logger, plot_fig, cleanup, exit_exc>>
    /\ UNCHANGED <<background_cache, time_index, retrying, acq_log, moved>>
    /\ UNCHANGED <<scanDevices, scanFlags, othersScan>>

\* _handle_shutdown lines 89-99, run by a SIGINT while the scan is under way
handle_shutdown ==
    /\ pcA \in {"loop_head", "move", "acquire", "all_failed", "process"}
    /\ sigints < MaxSigint
    /\ sigints' = sigints + 1
    /\ IF shutdown_requested
         THEN \* sys.exit(1): SystemExit passes every 'except Exception'
              /\ pcA' = "finally"
              /\ exit_exc' = "SystemExit"
              /\ UNCHANGED <<shutdown_requested, shutdown_event>>
         ELSE /\ shutdown_requested' = TRUE
              /\ shutdown_event' = TRUE
              /\ UNCHANGED <<pcA, exit_exc>>
    /\ UNCHANGED <<logger, plot_fig, cleanup>>
    /\ UNCHANGED <<scanDevices, scanPoint, othersScan>>

\* _cleanup_hardware lines 576-583 with ElliptecMotorController.home (37-50)
\* and close (68-79): the port is closed only when connected is True
MotorAfterCleanup(m, home_ok) ==
    IF ~m.created THEN m
    ELSE LET homed == IF m.connected /\ home_ok THEN [m EXCEPT !.at_home = TRUE] ELSE m
         IN  IF m.port = "open" /\ m.connected
               THEN [homed EXCEPT !.port = "closed", !.connected = FALSE]
               ELSE homed

\* _cleanup_hardware lines 585-586 with SapphirePulserController.close
\* (87-100): output off and port close share one try
PulserAfterCleanup(p, off_ok) ==
    IF p.created /\ p.port = "open" /\ p.connected
      THEN IF off_ok
             THEN [p EXCEPT !.output = 0, !.port = "closed", !.connected = FALSE]
             ELSE [p EXCEPT !.connected = FALSE]
      ELSE p

\* _cleanup_hardware lines 588-589 with close_communications (435-461)
SpectrometerAfterCleanup(sp) ==
    IF sp.created /\ sp.comms = "open" THEN [sp EXCEPT !.comms = "closed"] ELSE sp

\* run() lines 628-648: the except clauses only report; the finally block logs
\* through self.logger and then calls _cleanup_hardware (572-600)
run_finally ==
    /\ pcA = "finally"
    /\ pcA' = "exited"
    /\ IF logger = "None"
         THEN \* line 647 raises AttributeError, _cleanup_hardware is not called
              /\ exit_exc' = "AttributeError"
              /\ UNCHANGED <<scanDevices, cleanup>>
         ELSE \E home_ok \in BOOLEAN, off_ok \in BOOLEAN :
              /\ motor_controller' = MotorAfterCleanup(motor_controller, home_ok)
              /\ pulser_controller' = PulserAfterCleanup(pulser_controller, off_ok)
              /\ spectrometer_controller' =
                    SpectrometerAfterCleanup(spectrometer_controller)
              /\ cleanup' = [ran |-> TRUE,
                             faults |-> \/ motor_controller.connected /\ ~home_ok
                                        \/ pulser_controller.connected /\ ~off_ok]
              /\ UNCHANGED exit_exc
    /\ UNCHANGED <<logger, plot_fig>>
    /\ UNCHANGED <<scanFlags, scanPoint, othersScan>>

NextScan ==
    \/ create_measurement_dir
    \/ setup_logging
    \/ connect_hardware
    \/ setup_spectrometer_state
    \/ run_angle_scan
    \/ scan_loop_head
    \/ move_motor
    \/ acquire_time
    \/ all_presets_failed
    \/ process_and_save
    \/ handle_shutdown
    \/ run_finally

SpecScan == InitScan /\ [][NextScan]_vars


(***************************************************************************)
(* ANGLE SCAN : claims                                                     *)
(***************************************************************************)
\* C2: once the operator has answered [S]top at a retry/stop prompt (failed
\* acquisition at one time, all presets failed, processing/saving failed),
\* no later angle is moved to and no later spectrum is saved.
C2_StopEndsScan ==
    stop_chosen # 0 =>
        /\ \A i \in 1..Len(moved) : moved[i] <= stop_chosen
        /\ \A i \in 1..Len(saved) : saved[i].point <= stop_chosen

\* C7: on every exit of run() _cleanup_hardware has executed and every
\* controller that was created is closed: motor homed and its port closed,
\* pulser output off and its port closed, spectrometer links closed (the
\* devices themselves answering the cleanup commands).
C7_CleanupOnEveryExit ==
    (pcA = "exited" /\ ~cleanup.faults) =>
        /\ cleanup.ran
        /\ motor_controller.port # "open"
        /\ motor_controller.port = "closed" => motor_controller.at_home
        /\ pulser_controller.port # "open"
        /\ pulser_controller.output = 0
        /\ spectrometer_controller.comms # "open"

\* C11: once the first Ctrl+C has been handled the motor is moved to no
\* further angle and run() ends with _cleanup_hardware executed; once the
\* second Ctrl+C has been handled (sys.exit) the process touches no device
\* any more.
C11_InterruptStopsScan ==
    [][/\ shutdown_requested => moved' = moved
       /\ (shutdown_requested /\ exit_exc' # "SystemExit" /\ pcA' = "exited")
              => cleanup'.ran
       /\ exit_exc = "SystemExit" => scanDevices' = scanDevices]_vars

\* attempts for which acquire_frame returned a background frame
AcquiredDark(i) == acq_log[i].dark \in {"New", "Lost"}
\* attempts that stored their background in the cache
CachedDark(i) == acq_log[i].dark = "New"

\* the parts of C12 that do not count acquisitions: a cached background is
\* reused by every later successful signal of its time, a saved signal was
\* subtracted with a background of its own time, and the cache holds for
\* each time the first background stored for it
CacheReusedAndKept ==
    /\ \A i, j \in 1..Len(acq_log) :
           (i < j /\ CachedDark(i) /\ acq_log[j].time = acq_log[i].time
                  /\ acq_log[j].result = "good")
               => acq_log[j].dark = "Cached"
    /\ \A k \in 1..Len(saved) : saved[k].frame.bg_time = saved[k].frame.time
    /\ \A i \in 1..Len(acq_log) :
           CachedDark(i) =>
               /\ acq_log[i].time \in DOMAIN background_cache
               /\ background_cache[acq_log[i].time] = [time |-> acq_log[i].time, id |-> i]

\* C12 as stated: over a whole scan at most one background frame is acquired
\* per integration time, a cached background is reused by every later signal
\* of its time, the subtracted background has the signal's time, and cache
\* entries are never replaced or removed.
C12_BackgroundAcquiredOnce ==
    /\ \A i, j \in 1..Len(acq_log) :
           (AcquiredDark(i) /\ AcquiredDark(j) /\ acq_log[i].time = acq_log[j].time)
               => i = j
    /\ CacheReusedAndKept

\* C12 amended: at most one background frame is stored in the cache per
\* integration time and a background is acquired only while none is cached
\* for that time (one whose read-back failed was never cached and is
\* acquired again on retry); reuse, own integration time and permanence of
\* the entries as stated.
C12_BackgroundCachedOnce ==
    /\ \A i, j \in 1..Len(acq_log) :
           (CachedDark(i) /\ CachedDark(j) /\ acq_log[i].time = acq_log[j].time)
               => i = j
    /\ \A i, j \in 1..Len(acq_log) :
           (i < j /\ CachedDark(i) /\ acq_log[j].time = acq_log[i].time)
               => ~AcquiredDark(j)
    /\ CacheReusedAndKept

\* a saved spectrum whose background came from the cache, stored there by an
\* earlier attempt at the same integration time
C12_Witness ==
    \E k \in 1..Len(saved), i \in 1..Len(acq_log) :
        /\ saved[k].frame.background = "Cached"
        /\ CachedDark(i)
        /\ i < saved[k].frame.id
        /\ acq_log[i].time = saved[k].frame.time

\* the position in INTEGRATION_TIME_PRESETS_S of the time of attempt i
TriedIndex(i) == Index(INTEGRATION_TIME_PRESETS_S, acq_log[i].time)

\* attempt i is the first one made at its angle
FirstAtAngle(i) == i = 1 \/ acq_log[i - 1].point # acq_log[i].point

\* C13: at each angle the first time tried is the stored last-known-good
\* time; the next attempt at the angle uses the next shorter preset of the
\* list when, and only when, the attempt before it hard-saturated, and the
\* same preset again when the operator retries after a device error; nothing
\* is tried after a success, and no time longer than the starting one is
\* tried at the angle.
C13_StepDownInOrder ==
    \A i \in 1..Len(acq_log) :
        /\ TriedIndex(i) # 0
        /\ TriedIndex(i) >= Index(INTEGRATION_TIME_PRESETS_S, acq_log[i].guess)
        /\ FirstAtAngle(i) => acq_log[i].time = acq_log[i].guess
        /\ ~FirstAtAngle(i) =>
             /\ acq_log[i].guess = acq_log[i - 1].guess
             /\ acq_log[i - 1].result \in {"saturated", "error"}
             /\ acq_log[i - 1].result = "saturated" =>
                    TriedIndex(i) = TriedIndex(i - 1) + 1
             /\ acq_log[i - 1].result = "error" =>
                    TriedIndex(i) = TriedIndex(i - 1)

\* an angle that stepped down after a saturated frame, and a later angle that
\* started from a guess shorter than the longest preset
C13_Witness ==
    \E i, j \in 1..Len(acq_log) :
        /\ i + 1 < j
        /\ acq_log[i].result = "saturated"
        /\ acq_log[i + 1].point = acq_log[i].point
        /\ TriedIndex(i + 1) = TriedIndex(i) + 1
        /\ FirstAtAngle(j)
        /\ acq_log[j].guess # INTEGRATION_TIME_PRESETS_S[1]

\* the frame being denoised and subtracted, and every frame saved, had a raw
\* maximum below SATURATION_THRESHOLD and came from an attempt that succeeded;
\* no hard-saturated frame is the frame in processing or a saved one
UnsaturatedProcessed ==
    /\ pcA = "process" =>
         /\ signal_frame.max_intensity < SATURATION_THRESHOLD
         /\ ~acq_log[signal_frame.id].hard
    /\ \A k \in 1..Len(saved) :
         /\ saved[k].frame.max_intensity < SATURATION_THRESHOLD
         /\ acq_log[saved[k].frame.id].result = "good"
         /\ ~acq_log[saved[k].frame.id].hard
    /\ \A i \in 1..Len(acq_log) :
         acq_log[i].hard => acq_log[i].result \in {"saturated", "error"}

\* C14 as stated: every saved spectrum comes from a frame below the
\* threshold; a frame at or above it is never denoised, subtracted or saved,
\* and none is left in spectrometer memory.
C14_SaturatedFrameRemoved ==
    /\ UnsaturatedProcessed
    /\ \A i \in 1..Len(acq_log) : ~acq_log[i].left

\* C14 amended: every saved spectrum comes from a frame below the threshold;
\* a frame at or above it is never denoised, subtracted or saved; it is
\* removed from spectrometer memory whenever the attempt ends as saturated,
\* and can stay there only when the removal command itself failed, in which
\* case the attempt ends as a device error and the operator is asked.
C14_SaturatedFrameNeverUsed ==
    /\ UnsaturatedProcessed
    /\ \A i \in 1..Len(acq_log) :
         /\ acq_log[i].result = "saturated" => acq_log[i].hard /\ ~acq_log[i].left
         /\ acq_log[i].left => acq_log[i].hard /\ acq_log[i].result = "error"

\* a frame at the threshold value was discarded and a shorter preset at the
\* same angle gave the spectrum that was saved
C14_Witness ==
    \E k \in 1..Len(saved), i \in 1..Len(acq_log) :
        /\ acq_log[i].result = "saturated"
        /\ acq_log[i].point = acq_log[saved[k].frame.id].point
        /\ i < saved[k].frame.id
        /\ saved[k].frame.max_intensity = SATURATION_THRESHOLD - 1



(***************************************************************************)
(* CALIBRATION SCAN : Callibration.py and Wheel_Calibration.py             *)
(***************************************************************************)
NUM_PULSES == 50
MIN_PULSE_COUNT == 35
\* Config.MAX_PULSE_COUNT (property)
MAX_PULSE_COUNT == NUM_PULSES + 10
\* n_total of a burst: values around the two limits
PulseCounts == {MIN_PULSE_COUNT - 1, MIN_PULSE_COUNT, MAX_PULSE_COUNT, MAX_PULSE_COUNT + 1}

\* how far __enter__ gets before a device raises
EnterOutcomes == {"motor_port", "motor_home", "pulser_port", "pulser_config", "meter", "ok"}

\* ExperimentHardware.__enter__: the attributes set when it stops at 'outcome'
HardwareAfterEnter(outcome) ==
    IF outcome = "motor_port" THEN NoHardware
    ELSE IF outcome \in {"motor_home", "pulser_port"}
      THEN [NoHardware EXCEPT !.controller = "open", !.rotator = TRUE]
    ELSE IF outcome \in {"pulser_config", "meter"}
      THEN [NoHardware EXCEPT !.controller = "open", !.rotator = TRUE, !.pulser = "open"]
    ELSE [controller |-> "open", rotator |-> TRUE, pulser |-> "open", output |-> 0,
          meter |-> "open"]

\* Wheel_Calibration.py ExperimentHardware.__exit__ (263-271): the steps run
\* one after the other, the first device that raises ends the routine
WheelExit(h, motor_ok, pulser_ok, meter_ok) ==
    IF h.rotator /\ ~motor_ok THEN [hw |-> h, raised |-> TRUE]
    ELSE LET h1 == IF h.controller = "open" THEN [h EXCEPT !.controller = "closed"] ELSE h
         IN  IF h1.pulser = "open" /\ ~pulser_ok THEN [hw |-> h1, raised |-> TRUE]
             ELSE LET h2 == IF h1.pulser = "open"
                              THEN [h1 EXCEPT !.output = 0, !.pulser = "closed"] ELSE h1
                  IN  IF h2.meter = "open" /\ ~meter_ok THEN [hw |-> h2, raised |-> TRUE]
                      ELSE [hw |-> IF h2.meter = "open"
                                     THEN [h2 EXCEPT !.meter = "closed"] ELSE h2,
                            raised |-> FALSE]

\* Callibration.py ExperimentHardware.__exit__ (401-426): each device in its
\* own try/except
CallibrationExit(h, motor_ok, pulser_ok, meter_ok) ==
    LET h1 == IF h.controller = "open" THEN [h EXCEPT !.controller = "closed"] ELSE h
        h2 == IF h1.pulser = "open" /\ pulser_ok
                THEN [h1 EXCEPT !.output = 0, !.pulser = "closed"] ELSE h1
        h3 == IF h2.meter = "open" /\ meter_ok THEN [h2 EXCEPT !.meter = "closed"] ELSE h2
    IN  [hw |-> h3, raised |-> FALSE]

HardwareExit(script, h, motor_ok, pulser_ok, meter_ok) ==
    IF script = "Wheel_Calibration"
      THEN WheelExit(h, motor_ok, pulser_ok, meter_ok)
      ELSE CallibrationExit(h, motor_ok, pulser_ok, meter_ok)

InitCalib ==
    /\ IdleAcquire
    /\ StartCalib
    /\ cal_script \in {"Callibration", "Wheel_Calibration"}
    /\ StartStep1
    /\ StartScan /\ logger = "None"
    /\ IdleAnalysis

\* ExperimentHardware.__enter__: on a failure it calls __exit__ itself and
\* re-raises
hardware_enter ==
    /\ pcC = "enter"
    /\ \E outcome \in EnterOutcomes :
         /\ hw' = HardwareAfterEnter(outcome)
         /\ IF outcome = "ok"
              THEN pcC' = "scan" /\ cal_i' = 1 /\ cal_exc' = cal_exc
              ELSE pcC' = "exit" /\ cal_i' = cal_i /\ cal_exc' = "Exception"
    /\ UNCHANGED <<cal_script, results, cal_saved, exit_state, othersCalib>>

\* run(): loop test and motor move (Wheel_Calibration.py 367-374,
\* Callibration.py 517-524); an exception or Ctrl+C leaves the with-block
move_to_angle ==
    /\ pcC = "scan"
    /\ IF cal_i > MaxCalAngles
         THEN pcC' = "exit" /\ cal_exc' = cal_exc
         ELSE \E outcome \in {"ok", "Exception", "KeyboardInterrupt"} :
              IF outcome = "ok"
                THEN pcC' = "acquire" /\ cal_exc' = cal_exc
                ELSE pcC' = "exit" /\ cal_exc' = outcome
    /\ UNCHANGED <<cal_script, hw, cal_i, results, cal_saved, exit_state, othersCalib>>

\* one pass of 'while not success' without the check for too many pulses
measure_angle_NoNoiseCheck ==
    /\ pcC = "acquire"
    /\ \E outcome \in {"measured", "Exception", "KeyboardInterrupt"},
          n_total \in PulseCounts, over_limit \in BOOLEAN, redo \in BOOLEAN :
         IF outcome = "measured"
           THEN /\ hw' = [hw EXCEPT !.output = 0]
                /\ cal_exc' = cal_exc
                /\ IF \/ n_total < MIN_PULSE_COUNT
                      \/ over_limit /\ redo
                     THEN UNCHANGED <<pcC, cal_i, results>>
                     ELSE /\ results' = Append(results, [angle |-> cal_i,
                                                         pulses_total |-> n_total])
                          /\ cal_i' = cal_i + 1
                          /\ pcC' = "scan"
           ELSE /\ hw' = [hw EXCEPT !.output = IF outcome = "KeyboardInterrupt"
                                                 THEN 1 ELSE 0]
                /\ cal_exc' = outcome
                /\ pcC' = "exit"
                /\ UNCHANGED <<cal_i, results>>
    /\ UNCHANGED <<cal_script, cal_saved, exit_state, othersCalib>>

\* run(): one pass of 'while not success' (Wheel_Calibration.py 377-408,
\* Callibration.py 527-566) with acquire_data_point
measure_angle ==
    /\ pcC = "acquire"
    /\ \E outcome \in {"measured", "Exception", "KeyboardInterrupt"},
          n_total \in PulseCounts, over_limit \in BOOLEAN, redo \in BOOLEAN :
         IF outcome = "measured"
           THEN /\ hw' = [hw EXCEPT !.output = 0]
                /\ cal_exc' = cal_exc
                /\ IF \/ n_total < MIN_PULSE_COUNT
                      \/ n_total > MAX_PULSE_COUNT
                      \/ over_limit /\ redo
                     THEN UNCHANGED <<pcC, cal_i, results>>
                     ELSE /\ results' = Append(results, [angle |-> cal_i,
                                                         pulses_total |-> n_total])
                          /\ cal_i' = cal_i + 1
                          /\ pcC' = "scan"
           ELSE \* Ctrl+C arrives during the burst, the pulser still firing; a
                \* device error arrives from the meter before the burst
                /\ hw' = [hw EXCEPT !.output = IF outcome = "KeyboardInterrupt"
                                                 THEN 1 ELSE 0]
                /\ cal_exc' = outcome
                /\ pcC' = "exit"
                /\ UNCHANGED <<cal_i, results>>
    /\ UNCHANGED <<cal_script, cal_saved, exit_state, othersCalib>>

\* ExperimentHardware.__exit__, called by the with statement or by __enter__
hardware_exit ==
    /\ pcC = "exit"
    /\ \E motor_ok \in BOOLEAN, pulser_ok \in BOOLEAN, meter_ok \in BOOLEAN :
         LET r == HardwareExit(cal_script, hw, motor_ok, pulser_ok, meter_ok)
         IN  /\ hw' = r.hw
             /\ cal_exc' = IF r.raised THEN "Exception" ELSE cal_exc
             /\ exit_state' = [ran |-> TRUE,
                               motor_fault |-> hw.rotator /\ ~motor_ok,
                               pulser_fault |-> hw.pulser = "open" /\ ~pulser_ok,
                               meter_fault |-> hw.meter = "open" /\ ~meter_ok]
    /\ pcC' = "save"
    /\ UNCHANGED <<cal_script, cal_i, results, cal_saved, othersCalib>>

\* _save_data writing the table without its last row
save_data_DropLast ==
    /\ pcC = "save"
    /\ \E to_csv_ok \in BOOLEAN :
         cal_saved' = IF results # <<>> /\ to_csv_ok
                      THEN SubSeq(results, 1, Len(results) - 1) ELSE cal_saved
    /\ pcC' = "done"
    /\ UNCHANGED <<cal_script, hw, cal_i, results, cal_exc, exit_state, othersCalib>>

\* run(): finally clause, _save_data (Wheel_Calibration.py 413-415, 422-456;
\* Callibration.py 572-576, 586-607)
save_data ==
    /\ pcC = "save"
    /\ \E to_csv_ok \in BOOLEAN :
         cal_saved' = IF results # <<>> /\ to_csv_ok THEN results ELSE cal_saved
    /\ pcC' = "done"
    /\ UNCHANGED <<cal_script, hw, cal_i, results, cal_exc, exit_state, othersCalib>>

NextCalib ==
    \/ hardware_enter
    \/ move_to_angle
    \/ measure_angle
    \/ hardware_exit
    \/ save_data

SpecCalib == InitCalib /\ [][NextCalib]_vars


(***************************************************************************)
(* CALIBRATION SCAN : claims                                               *)
(***************************************************************************)
\* C5: whenever the with-block has been left, __exit__ has run, and it has
\* switched the pulser output off and released the motor, pulser and meter
\* ports: each device that itself answers is shut down whatever happened to
\* the cleanup steps before it (such as the motor not returning to 0).
C5_ExitReleasesEverything ==
    pcC \in {"save", "done"} =>
        /\ exit_state.ran
        /\ hw.controller # "open"
        /\ ~exit_state.pulser_fault => (hw.pulser # "open" /\ hw.output = 0)
        /\ ~exit_state.meter_fault => hw.meter # "open"

(***************************************************************************)
(* ANALYSIS : pure functions of step2_signal_processing.py and             *)
(* step3_spectrum_analysis.py                                              *)
(***************************************************************************)
\* rows of the energy manifest
MaxRows == 4
\* samples of one raw spectrum
SpectrumLen == 5
\* points of the resample grid (np.linspace(..., 500) in the source)
GridPoints == 6

SMOOTH_WINDOW == 91
\* the window of the run that wrote the COMBINED file found by this run
PREVIOUS_WINDOW == 51
\* SMOOTH_WINDOW of Analysis_Codes/analysis_config.py
SMOOTH_WINDOW_V1 == 51
SAVGOL_POLYORDER == 3
BASELINE_SAMPLES == 10
DEFAULT_INTEGRATION_TIME == 1
TIME_HEADER_LINES == 20
MIN_THRESHOLD_POINTS == 4

lev50 == Fin(1, 2)
\* an exception raised inside a function that returns a float
Raised == [k |-> "raised", n |-> 0, d |-> 0]

FMax(a, b) == IF FLess(a, b) THEN b ELSE a

RECURSIVE SumF(_, _)
SumF(s, n) == IF n = 0 THEN F(0) ELSE FAdd(SumF(s, n - 1), s[n])

\* np.mean
Mean(s) == FDiv(SumF(s, Len(s)), F(Len(s)))

\* np.max of a non-empty array
RECURSIVE MaxF(_, _)
MaxF(s, n) == IF n = 1 THEN s[1] ELSE FMax(MaxF(s, n - 1), s[n])

\* np.argmax: the first index of the maximum (1-based here)
ArgMax(s) ==
    CHOOSE i \in 1..Len(s) :
        /\ s[i] = MaxF(s, Len(s))
        /\ \A j \in 1..(i - 1) : s[j] # MaxF(s, Len(s))

\* a ValueError leaving a function
ValueError == [raised |-> "ValueError"]

\* scipy.signal.savgol_filter (mode 'interp') raises ValueError when polyorder
\* is not less than window_length and when window_length exceeds the size of
\* x; otherwise it is not evaluated: its application is kept as a term
savgol_filter(x, window_length, polyorder) ==
    IF polyorder >= window_length \/ window_length > Len(x) THEN ValueError
    ELSE [filter |-> "savgol", x |-> x, window_length |-> window_length,
          polyorder |-> polyorder]

\* Analysis_Codes/step2_spectrum_analysis.py smooth(x, S_value)
smooth_v1(x, S_value) ==
    IF S_value < 3 \/ S_value % 2 = 0 THEN ValueError
    ELSE savgol_filter(x, S_value, 3)

smooth(x, window) ==
    IF window < 3 THEN x
    ELSE LET w == IF window % 2 = 0 THEN window + 1 ELSE window
         IN  IF Len(x) < w THEN x
             ELSE savgol_filter(x, w, SAVGOL_POLYORDER)

\* np.interp(x, xp, fp) with two sample points, as numpy's compiled
\* interpolation evaluates it: right value above xp[1], left value below
\* xp[0], a sample value on a sample point, the chord in between
\* (comparisons with nan are false); a nan chord is recomputed from the right
\* sample and, failing that, replaced by the common value of equal samples
interp(x, xp, fp) ==
    IF FLess(xp[2], x) THEN fp[2]
    ELSE IF FLess(x, xp[1]) THEN fp[1]
    ELSE IF xp[2] = x THEN fp[2]
    ELSE IF xp[1] = x THEN fp[1]
    ELSE LET slope == FDiv(FSub(fp[2], fp[1]), FSub(xp[2], xp[1]))
             left == FAdd(FMul(slope, FSub(x, xp[1])), fp[1])
             right == FAdd(FMul(slope, FSub(x, xp[2])), fp[2])
         IN  IF left.k # "nan" THEN left
             ELSE IF right.k # "nan" THEN right
             ELSE IF fp[1] = fp[2] THEN fp[1]
             ELSE NaN

\* the two while loops of fwhm, on 1-based indices
RECURSIVE WalkLeft(_, _)
WalkLeft(y_norm, i) ==
    IF i > 1 /\ FLess(lev50, y_norm[i]) THEN WalkLeft(y_norm, i - 1) ELSE i

RECURSIVE WalkRight(_, _)
WalkRight(y_norm, i) ==
    IF i < Len(y_norm) /\ FLess(lev50, y_norm[i]) THEN WalkRight(y_norm, i + 1) ELSE i

fwhm(x, y) ==
    IF Len(y) = 0 THEN Raised
    ELSE IF IsZero(MaxF(y, Len(y))) THEN F(0)
    ELSE LET y_norm == [i \in 1..Len(y) |-> FDiv(y[i], MaxF(y, Len(y)))]
             center == ArgMax(y_norm)
             l == WalkLeft(y_norm, center)
             r == WalkRight(y_norm, center)
             x1 == interp(lev50, <<y_norm[l], y_norm[l + 1]>>, <<x[l], x[l + 1]>>)
             x2 == interp(lev50, <<y_norm[r], y_norm[r - 1]>>, <<x[r], x[r - 1]>>)
         IN  IF \A i \in 1..Len(y) : FLess(y_norm[i], lev50) THEN F(0)
             ELSE IF Len(y) < 2 THEN Raised
             ELSE FSub(x2, x1)

\* s[i] of Python for a 0-based index i >= -1, on 1-based sequences: index 0
\* here is Python's -1, the last element
PyAt(s, i) == IF i >= 1 THEN s[i] ELSE s[Len(s) + i]

\* Analysis_Codes/step2_spectrum_analysis.py fwhm(x, y): no test of a zero
\* maximum, nan when every normalised value is below one half
fwhm_v1(x, y) ==
    IF Len(y) = 0 THEN Raised
    ELSE LET y_norm == [i \in 1..Len(y) |-> FDiv(y[i], MaxF(y, Len(y)))]
             center == ArgMax(y_norm)
             l == WalkLeft(y_norm, center)
             r == WalkRight(y_norm, center)
             x1 == interp(lev50, <<y_norm[l], y_norm[l + 1]>>, <<x[l], x[l + 1]>>)
             x2 == interp(lev50, <<y_norm[r], PyAt(y_norm, r - 1)>>,
                          <<x[r], PyAt(x, r - 1)>>)
         IN  IF \A i \in 1..Len(y) : FLess(y_norm[i], lev50) THEN NaN
             ELSE IF Len(y) < 2 THEN Raised
             ELSE FSub(x2, x1)

\* spec[:10], np.mean, np.maximum(spec - baseline, 0)
baseline_corrected(spec) ==
    LET n == IF Len(spec) < BASELINE_SAMPLES THEN Len(spec) ELSE BASELINE_SAMPLES
        baseline == Mean(SubSeq(spec, 1, n))
    IN  [i \in 1..Len(spec) |-> FMax(FSub(spec[i], baseline), F(0))]

\* Analysis_Codes/step2_spectrum_analysis.py 236-237: spec - np.mean(spec[:10]),
\* no clamping
baseline_shifted(spec) ==
    LET n == IF Len(spec) < BASELINE_SAMPLES THEN Len(spec) ELSE BASELINE_SAMPLES
        baseline == Mean(SubSeq(spec, 1, n))
    IN  [i \in 1..Len(spec) |-> FSub(spec[i], baseline)]

\* np.trapz(y, x)
RECURSIVE trapz_upto(_, _, _)
trapz_upto(y, x, n) ==
    IF n <= 1 THEN F(0)
    ELSE FAdd(trapz_upto(y, x, n - 1),
              FDiv(FMul(FSub(x[n], x[n - 1]), FAdd(y[n], y[n - 1])), F(2)))

trapz(y, x) == trapz_upto(y, x, Len(y))

\* np.argsort(energy) applied to both arrays: pairs <<energy, fwhm>> in
\* ascending energy
RECURSIVE InsertByEnergy(_, _)
InsertByEnergy(r, s) ==
    IF s = <<>> THEN <<r>>
    ELSE IF FLess(r[1], Head(s)[1]) THEN <<r>> \o s
    ELSE <<Head(s)>> \o InsertByEnergy(r, Tail(s))

RECURSIVE ArgSorted(_)
ArgSorted(s) ==
    IF s = <<>> THEN <<>>
    ELSE InsertByEnergy(s[Len(s)], ArgSorted(SubSeq(s, 1, Len(s) - 1)))

\* the array holding f[1], ..., f[n], every element computed once
RECURSIVE Array(_, _)
Array(f, n) == IF n = 0 THEN <<>> ELSE Append(Array(f, n - 1), f[n])

\* np.linspace(lo, hi, GridPoints)
linspace(lo, hi) ==
    Array([k \in 1..GridPoints |->
              FAdd(lo, FDiv(FMul(F(k - 1), FSub(hi, lo)), F(GridPoints - 1)))],
          GridPoints)

\* interp1d(kind='cubic') builds the not-a-knot cubic spline through the
\* knots.  SplineSystem is the linear system of its second derivatives M:
\* continuity of the third derivative at the second and the last but one
\* knot, continuity of the first derivative at every inner knot.
SplineSystem(x, y) ==
    LET n == Len(x)
        h == Array([i \in 1..(n - 1) |-> FSub(x[i + 1], x[i])], n - 1)
        slope == Array([i \in 1..(n - 1) |-> FDiv(FSub(y[i + 1], y[i]), h[i])], n - 1)
        Coef(i, j) ==
            IF i = 1 THEN (IF j = 1 THEN h[2]
                           ELSE IF j = 2 THEN FNeg(FAdd(h[1], h[2]))
                           ELSE IF j = 3 THEN h[1] ELSE F(0))
            ELSE IF i = n THEN (IF j = n - 2 THEN h[n - 1]
                                ELSE IF j = n - 1 THEN FNeg(FAdd(h[n - 2], h[n - 1]))
                                ELSE IF j = n THEN h[n - 2] ELSE F(0))
            ELSE IF j = i - 1 THEN h[i - 1]
            ELSE IF j = i THEN FMul(F(2), FAdd(h[i - 1], h[i]))
            ELSE IF j = i + 1 THEN h[i]
            ELSE F(0)
        Rhs(i) == IF i = 1 \/ i = n THEN F(0)
                  ELSE FMul(F(6), FSub(slope[i], slope[i - 1]))
        Row(i) == Array([j \in 1..(n + 1) |-> IF j = n + 1 THEN Rhs(i) ELSE Coef(i, j)],
                        n + 1)
    IN  Array([i \in 1..n |-> Row(i)], n)

\* Gauss-Jordan elimination of the augmented matrix A from column c on
RECURSIVE Eliminate(_, _)
Eliminate(A, c) ==
    IF c > Len(A) THEN A
    ELSE LET p == CHOOSE r \in c..Len(A) :
                      /\ ~IsZero(A[r][c])
                      /\ \A q \in c..(r - 1) : IsZero(A[q][c])
             swapped == [A EXCEPT ![c] = A[p], ![p] = A[c]]
             pivot == Array([j \in 1..(Len(A) + 1) |->
                                FDiv(swapped[c][j], swapped[c][c])], Len(A) + 1)
             Cleared(r) ==
                 IF r = c THEN pivot
                 ELSE Array([j \in 1..(Len(A) + 1) |->
                                FSub(swapped[r][j], FMul(swapped[r][c], pivot[j]))],
                            Len(A) + 1)
         IN  Eliminate(Array([r \in 1..Len(A) |-> Cleared(r)], Len(A)), c + 1)

SplineMoments(x, y) ==
    LET solved == Eliminate(SplineSystem(x, y), 1)
    IN  Array([i \in 1..Len(x) |-> solved[i][Len(x) + 1]], Len(x))

FCube(a) == FMul(a, FMul(a, a))

\* the spline with second derivatives M at a point t of [x[1], x[n]]
SplineAt(x, y, M, t) ==
    LET i == CHOOSE s \in 1..(Len(x) - 1) :
                 /\ ~FLess(t, x[s])
                 /\ (s = Len(x) - 1 \/ FLess(t, x[s + 1]))
        h == FSub(x[i + 1], x[i])
        a == FSub(x[i + 1], t)
        b == FSub(t, x[i])
        sixh == FMul(F(6), h)
    IN  FAdd(FAdd(FDiv(FMul(M[i], FCube(a)), sixh),
                  FDiv(FMul(M[i + 1], FCube(b)), sixh)),
             FAdd(FMul(FSub(FDiv(y[i], h), FDiv(FMul(M[i], h), F(6))), a),
                  FMul(FSub(FDiv(y[i + 1], h), FDiv(FMul(M[i + 1], h), F(6))), b)))

\* np.gradient(y, x): second order inside, one-sided at both ends
gradient(y, x) ==
    LET n == Len(y)
        Inner(i) ==
            LET hs == FSub(x[i], x[i - 1])
                hd == FSub(x[i + 1], x[i])
            IN  FDiv(FAdd(FMul(FMul(hs, hs), y[i + 1]),
                          FSub(FMul(FSub(FMul(hd, hd), FMul(hs, hs)), y[i]),
                               FMul(FMul(hd, hd), y[i - 1]))),
                     FMul(FMul(hs, hd), FAdd(hd, hs)))
    IN  Array([i \in 1..n |->
                  IF i = 1 THEN FDiv(FSub(y[2], y[1]), FSub(x[2], x[1]))
                  ELSE IF i = n THEN FDiv(FSub(y[n], y[n - 1]), FSub(x[n], x[n - 1]))
                  ELSE Inner(i)], n)

\* interp1d raises ValueError on repeated x values
HasDuplicates(x_s) == \E i \in 1..(Len(x_s) - 1) : x_s[i] = x_s[i + 1]

\* the try body of calculate_ase_threshold past the length check
threshold_of(x_s, y_s) ==
    LET x_new == linspace(x_s[1], x_s[Len(x_s)])
        M == SplineMoments(x_s, y_s)
        y_new == Array([k \in 1..GridPoints |-> SplineAt(x_s, y_s, M, x_new[k])],
                       GridPoints)
        dy == gradient(y_new, x_new)
        limit == FAdd(x_new[1],
                      FMul(Fin(5, 100), FSub(x_new[GridPoints], x_new[1])))
        mask == {k \in 1..GridPoints : FLess(limit, x_new[k])}
        threshold_idx == CHOOSE k \in mask :
                             /\ \A j \in mask : ~FLess(dy[j], dy[k])
                             /\ \A j \in mask : j < k => FLess(dy[k], dy[j])
    IN  IF mask = {} THEN F(0) ELSE x_new[threshold_idx]

calculate_ase_threshold(energy, fwhm_values) ==
    LET sorted == ArgSorted(Array([i \in 1..Len(energy) |-> <<energy[i], fwhm_values[i]>>],
                                  Len(energy)))
        x_s == Array([i \in 1..Len(sorted) |-> sorted[i][1]], Len(sorted))
        y_s == Array([i \in 1..Len(sorted) |-> sorted[i][2]], Len(sorted))
    IN  IF Len(x_s) < MIN_THRESHOLD_POINTS THEN F(0)
        ELSE IF HasDuplicates(x_s) THEN F(0)
        ELSE threshold_of(x_s, y_s)

\* Analysis_Codes/step2_spectrum_analysis.py ase_threshold(x, y): no length
\* check and no try; x_s.min() of an empty array and interp1d(kind='cubic') on
\* fewer than 4 points or on repeated x values raise ValueError
ase_threshold(x, y) ==
    LET sorted == ArgSorted(Array([i \in 1..Len(x) |-> <<x[i], y[i]>>], Len(x)))
        x_s == Array([i \in 1..Len(sorted) |-> sorted[i][1]], Len(sorted))
        y_s == Array([i \in 1..Len(sorted) |-> sorted[i][2]], Len(sorted))
    IN  IF Len(x_s) < 4 \/ HasDuplicates(x_s) THEN Raised
        ELSE threshold_of(x_s, y_s)

(***************************************************************************)
(* ANALYSIS : the files the two stages read                                *)
(***************************************************************************)
\* A raw spectrum file: np.loadtxt either yields the two columns or raises
\* (loadable = FALSE); open() succeeds or raises (openable); time_lines are
\* the lines holding 'Integration Time (s):', in file order: the number of the
\* line, whether float() accepts the text behind the colon (num), its value v
TimeLine(line, num, v) == [line |-> line, num |-> num, v |-> v]
WavelengthAxis == [i \in 1..SpectrumLen |-> 335 + i]
Middle == (SpectrumLen + 1) \div 2

NarrowPeakFile ==
    [loadable |-> TRUE, wavelength |-> WavelengthAxis,
     intensity |-> [i \in 1..SpectrumLen |-> IF i = Middle THEN 8 ELSE 0],
     openable |-> TRUE, time_lines |-> <<TimeLine(2, TRUE, 2)>>]
WidePeakFile ==
    [loadable |-> TRUE, wavelength |-> WavelengthAxis,
     intensity |-> [i \in 1..SpectrumLen |->
                       IF i = Middle THEN 8
                       ELSE IF i = Middle - 1 \/ i = Middle + 1 THEN 4 ELSE 0],
     openable |-> TRUE, time_lines |-> <<>>]
FlatFile ==
    [loadable |-> TRUE, wavelength |-> WavelengthAxis,
     intensity |-> [i \in 1..SpectrumLen |-> 3],
     openable |-> TRUE, time_lines |-> <<TimeLine(TIME_HEADER_LINES + 1, TRUE, 3)>>]
UnloadableFile ==
    [loadable |-> FALSE, wavelength |-> <<>>, intensity |-> <<>>,
     openable |-> TRUE, time_lines |-> <<TimeLine(2, FALSE, 0)>>]
MissingFile ==
    [loadable |-> FALSE, wavelength |-> <<>>, intensity |-> <<>>,
     openable |-> FALSE, time_lines |-> <<>>]

RawFiles == {NarrowPeakFile, WidePeakFile, FlatFile, UnloadableFile, MissingFile}

\* fluence against manifest position: the manifest is sorted by angle, its
\* fluences rise, fall, or repeat
FluenceOrders == {"rising", "falling", "repeated"}
Fluence(order, i) ==
    IF order = "rising" THEN F(i)
    ELSE IF order = "falling" THEN F(MaxRows + 2 - i)
    ELSE F((i + 1) \div 2)

\* the columns Step 1 writes that the later stages read, and the manifests
\* the stages may find: complete, or with one of these columns absent
ManifestColumns == {"filename", "angle", "fluence_uJ_cm2"}
ManifestColumnSets == {ManifestColumns} \cup {ManifestColumns \ {c} : c \in ManifestColumns}

Manifest(n, order, columns) ==
    [exists |-> TRUE, columns |-> columns,
     rows |-> [i \in 1..n |-> [filename |-> i, angle |-> 10 * i,
                               fluence_uJ_cm2 |-> Fluence(order, i)]]]

\* column 1 of np.loadtxt as floats
FloatColumn(s) == [i \in 1..Len(s) |-> F(s[i])]

\* get_integration_time reading the whole file
get_integration_time_AnyLine(file) ==
    IF ~file.openable \/ file.time_lines = <<>> THEN F(DEFAULT_INTEGRATION_TIME)
    ELSE IF file.time_lines[1].num THEN F(file.time_lines[1].v)
    ELSE F(DEFAULT_INTEGRATION_TIME)

\* get_integration_time: the first tagged line among the first
\* TIME_HEADER_LINES lines is converted with float(); open() or float()
\* raising is caught and answered, like no tagged line, by the default
get_integration_time(file) ==
    IF ~file.openable THEN F(DEFAULT_INTEGRATION_TIME)
    ELSE IF file.time_lines = <<>> THEN F(DEFAULT_INTEGRATION_TIME)
    ELSE IF file.time_lines[1].line > TIME_HEADER_LINES THEN F(DEFAULT_INTEGRATION_TIME)
    ELSE IF file.time_lines[1].num THEN F(file.time_lines[1].v)
    ELSE F(DEFAULT_INTEGRATION_TIME)

Zeros(n) == [i \in 1..n |-> F(0)]

\* a column header of the COMBINED file: f"{base_name} ({tag})" with the tag
\* RAW or w=<window>, or f"ERROR_{i}"
Header(base, tag, window) == [base |-> base, tag |-> tag, window |-> window]

\* a COMBINED file left by an earlier run with window PREVIOUS_WINDOW: m
\* spectra of len samples each
PreviousOutput(m, len) ==
    [written |-> TRUE,
     Wavelength |-> SubSeq(FloatColumn(WavelengthAxis), 1, len),
     headers |-> [i \in 1..m |-> Header(10 * i, "w", PREVIOUS_WINDOW)],
     matrix |-> [i \in 1..m |-> [j \in 1..len |-> F(7)]]]

\* what a run over n manifest rows may find: no COMBINED file, one of n
\* spectra, one of another number of spectra, one of n shorter spectra
PreviousOutputs(n) ==
    {NoCombined, PreviousOutput(n, SpectrumLen), PreviousOutput(n - 1, SpectrumLen),
     PreviousOutput(n, SpectrumLen - 1)}

\* the manifests with a missing column, the fluence orders, and the re-runs
\* with a cursor or a previous output are each explored on their own; the
\* first and the last with raw files that hold a narrow peak or do not load
InitAnalysis ==
    /\ IdleAcquire
    /\ StartAnalysis
    /\ \/ \E n \in 1..MaxRows, order \in FluenceOrders, columns \in ManifestColumnSets,
              k \in 0..MaxRows :
           \E previous \in PreviousOutputs(n) :
              /\ (columns # ManifestColumns \/ order # "rising") =>
                     (k = 0 /\ previous = NoCombined)
              /\ columns # ManifestColumns => order = "rising"
              /\ k <= n
              /\ energy_manifest = Manifest(n, order, columns)
              /\ raw_data \in [1..n -> RawFiles]
              /\ (columns # ManifestColumns \/ k # 0 \/ previous # NoCombined) =>
                     \A i \in 1..n : raw_data[i] \in {NarrowPeakFile, UnloadableFile}
              /\ START_SMOOTHING_INDEX = k
              /\ combined_csv = previous
       \/ /\ energy_manifest = NoManifest
          /\ raw_data = <<>>
          /\ START_SMOOTHING_INDEX = 0
          /\ combined_csv = NoCombined
    /\ StartStep1
    /\ StartScan /\ logger = "None"
    /\ StartCalib /\ cal_script = "Callibration"

(***************************************************************************)
(* ANALYSIS : step2_signal_processing.py main(), then                      *)
(* step3_spectrum_analysis.py main()                                       *)
(***************************************************************************)
RowCount == Len(energy_manifest.rows)
FileOf(i) == raw_data[energy_manifest.rows[i].filename]

\* step 2, lines 43-62 and 91-95: the manifest, the wavelengths of the first
\* file (loaded outside any try), the zero matrices
s2_load ==
    /\ pcN = "s2_load"
    /\ IF ~energy_manifest.exists
         THEN /\ pcN' = "s3_load"
              /\ UNCHANGED <<wavelengths, optimized_matrix, ana_exc>>
       ELSE IF "filename" \notin energy_manifest.columns
         THEN \* df['filename'] of line 53 or of line 56
              /\ ana_exc' = "KeyError"
              /\ pcN' = "s3_load"
              /\ UNCHANGED <<wavelengths, optimized_matrix>>
       ELSE IF ~FileOf(1).loadable
         THEN /\ ana_exc' = "ValueError"
              /\ pcN' = "s3_load"
              /\ UNCHANGED <<wavelengths, optimized_matrix>>
       ELSE /\ wavelengths' = FloatColumn(FileOf(1).wavelength)
            /\ optimized_matrix' =
                   [i \in 1..RowCount |-> Zeros(Len(FileOf(1).wavelength))]
            /\ pcN' = "s2_loop"
            /\ UNCHANGED ana_exc
    /\ UNCHANGED <<START_SMOOTHING_INDEX, energy_manifest, raw_data, plots_saved, final_headers, combined_csv,
                   fwhm_list, intensity_list, estimator_input, final_results>>
    /\ UNCHANGED othersAnalysis

\* a test that locks the column at the cursor too
Locked_Inclusive(i) == i <= START_SMOOTHING_INDEX

\* line 108: zone A, the columns below the cursor (i is 0-based)
Locked(i) == i < START_SMOOTHING_INDEX

\* lines 69-82: prev_matrix is not None.  The COMBINED file is not written
\* before line 146, so the loop reads what the run found
PrevUsable == combined_csv.written /\ Len(combined_csv.matrix) = RowCount

\* step 2, lines 97-139: one iteration of the loop.  Any exception of the
\* body ends in the bare except, which appends the header ERROR_i and leaves
\* the column of the matrix as np.zeros made it
s2_process_file ==
    /\ pcN = "s2_loop"
    /\ Len(final_headers) < RowCount
    /\ LET i == Len(final_headers)
           file == FileOf(i + 1)
           base_name == IF "angle" \in energy_manifest.columns
                          THEN energy_manifest.rows[i + 1].angle
                          ELSE energy_manifest.rows[i + 1].filename
           fits == file.loadable /\ Len(file.intensity) = Len(wavelengths)
           \* optimized_matrix[:, i] = prev_matrix[:, i] raises ValueError when
           \* the previous column has another number of samples
           copies == Len(combined_csv.matrix[i + 1]) = Len(wavelengths)
       IN  IF ~fits \/ (Locked(i) /\ PrevUsable /\ ~copies)
             THEN /\ final_headers' = Append(final_headers, Header(i, "ERROR", 0))
                  /\ UNCHANGED optimized_matrix
           ELSE IF Locked(i) /\ PrevUsable
             THEN /\ optimized_matrix' =
                         [optimized_matrix EXCEPT ![i + 1] = combined_csv.matrix[i + 1]]
                  /\ final_headers' = Append(final_headers, combined_csv.headers[i + 1])
           ELSE IF Locked(i)
             THEN /\ optimized_matrix' =
                         [optimized_matrix EXCEPT ![i + 1] = FloatColumn(file.intensity)]
                  /\ final_headers' = Append(final_headers, Header(base_name, "RAW", 0))
           ELSE /\ optimized_matrix' =
                       [optimized_matrix EXCEPT
                           ![i + 1] = smooth(FloatColumn(file.intensity), SMOOTH_WINDOW)]
                /\ final_headers' =
                       Append(final_headers, Header(base_name, "w", SMOOTH_WINDOW))
    /\ UNCHANGED <<pcN, START_SMOOTHING_INDEX, energy_manifest, raw_data, plots_saved, wavelengths, combined_csv,
                   fwhm_list, intensity_list, estimator_input, final_results, ana_exc>>
    /\ UNCHANGED othersAnalysis

\* step 2, lines 141-153: the master file, or PermissionError and return
s2_save ==
    /\ pcN = "s2_loop"
    /\ Len(final_headers) = RowCount
    /\ \E permitted \in BOOLEAN :
           combined_csv' =
               IF permitted
                 THEN [written |-> TRUE, Wavelength |-> wavelengths,
                       headers |-> final_headers, matrix |-> optimized_matrix]
               ELSE combined_csv
    /\ pcN' = "s3_load"
    /\ UNCHANGED <<START_SMOOTHING_INDEX, energy_manifest, raw_data, plots_saved, wavelengths, optimized_matrix,
                   final_headers, fwhm_list, intensity_list, estimator_input,
                   final_results, ana_exc>>
    /\ UNCHANGED othersAnalysis

\* step 3, lines 74-98: both inputs exist and have as many spectra as rows
s3_load ==
    /\ pcN = "s3_load"
    /\ pcN' = IF /\ combined_csv.written
                 /\ energy_manifest.exists
                 /\ Len(combined_csv.matrix) = RowCount
                THEN "s3_metrics"
              ELSE "done"
    /\ UNCHANGED <<START_SMOOTHING_INDEX, energy_manifest, raw_data, plots_saved, wavelengths, optimized_matrix,
                   final_headers, combined_csv, fwhm_list, intensity_list,
                   estimator_input, final_results, ana_exc>>
    /\ UNCHANGED othersAnalysis

\* step 3, lines 104-121: one manifest row
s3_metrics ==
    /\ pcN = "s3_metrics"
    /\ Len(fwhm_list) < RowCount
    /\ LET i == Len(fwhm_list) + 1
           spec == combined_csv.matrix[i]
           t_int == get_integration_time(FileOf(i))
           spec_corr == baseline_corrected(spec)
           area == trapz(spec_corr, combined_csv.Wavelength)
       IN  /\ intensity_list' = Append(intensity_list, FDiv(area, t_int))
           /\ fwhm_list' = Append(fwhm_list, fwhm(combined_csv.Wavelength, spec_corr))
    /\ UNCHANGED <<pcN, START_SMOOTHING_INDEX, energy_manifest, raw_data, plots_saved, wavelengths, optimized_matrix,
                   final_headers, combined_csv, estimator_input, final_results,
                   ana_exc>>
    /\ UNCHANGED othersAnalysis

\* step 3, lines 123-134: the threshold over all rows, the final table
s3_threshold_save ==
    /\ pcN = "s3_metrics"
    /\ Len(fwhm_list) = RowCount
    /\ LET energies == [i \in 1..RowCount |-> energy_manifest.rows[i].fluence_uJ_cm2]
           threshold == calculate_ase_threshold(energies, fwhm_list)
           table == [i \in 1..RowCount |->
                        [c \in energy_manifest.columns \cup
                               {"FWHM_nm", "Integrated_Intensity", "Calculated_Threshold"} |->
                            IF c = "FWHM_nm" THEN fwhm_list[i]
                            ELSE IF c = "Integrated_Intensity" THEN intensity_list[i]
                            ELSE IF c = "Calculated_Threshold" THEN threshold
                            ELSE energy_manifest.rows[i][c]]]
       IN  IF "fluence_uJ_cm2" \notin energy_manifest.columns
             THEN \* df_manifest['fluence_uJ_cm2'] of line 123
                  /\ ana_exc' = "KeyError"
                  /\ pcN' = "done"
                  /\ UNCHANGED <<estimator_input, final_results>>
           ELSE /\ estimator_input' = [called |-> TRUE, energy |-> energies,
                                       fwhm_values |-> fwhm_list]
                /\ \E permitted \in BOOLEAN :
                       IF permitted
                         THEN /\ final_results' = [written |-> TRUE, rows |-> table]
                              /\ pcN' = "s3_plots"
                              /\ UNCHANGED ana_exc
                       ELSE /\ ana_exc' = "PermissionError"
                            /\ pcN' = "done"
                            /\ UNCHANGED final_results
    /\ UNCHANGED <<START_SMOOTHING_INDEX, energy_manifest, raw_data, plots_saved, wavelengths, optimized_matrix,
                   final_headers, combined_csv, fwhm_list, intensity_list>>
    /\ UNCHANGED othersAnalysis

\* step 3, lines 140-194: the three figures, saved one after the other with
\* plt.savefig; a savefig that raises (OSError, PermissionError) ends main()
PlotFiles == <<"Plot_SCurve.png", "Plot_Spectra_Normalized.png",
               "Plot_Spectra_Unnormalized.png">>

s3_save_plot ==
    /\ pcN = "s3_plots"
    /\ \E saved_ok \in BOOLEAN :
           IF saved_ok
             THEN /\ plots_saved' = Append(plots_saved, PlotFiles[Len(plots_saved) + 1])
                  /\ pcN' = IF Len(plots_saved) + 1 = Len(PlotFiles) THEN "done" ELSE pcN
                  /\ UNCHANGED ana_exc
           ELSE /\ ana_exc' = "OSError"
                /\ pcN' = "done"
                /\ UNCHANGED plots_saved
    /\ UNCHANGED <<START_SMOOTHING_INDEX, energy_manifest, raw_data, wavelengths,
                   optimized_matrix, final_headers, combined_csv, fwhm_list,
                   intensity_list, estimator_input, final_results>>
    /\ UNCHANGED othersAnalysis

NextAnalysis ==
    \/ s2_load
    \/ s2_process_file
    \/ s2_save
    \/ s3_load
    \/ s3_metrics
    \/ s3_threshold_save
    \/ s3_save_plot

SpecAnalysis == InitAnalysis /\ [][NextAnalysis]_vars

(***************************************************************************)
(* ANALYSIS : the functions of the scripts called on their own, on          *)
(* arguments drawn from small sets                                         *)
(***************************************************************************)
\* the two generations of the analysis scripts
Versions == {"Analysis_Codes", "Analysis_Codes_v2"}

Ramp(n) == [i \in 1..n |-> F(i)]

\* spectra of 0..SpectrumLen samples
SmoothInputs == {Ramp(n) : n \in 0..SpectrumLen} \cup {Zeros(n) : n \in 0..SpectrumLen}

InitFunctions ==
    /\ IdleAcquire
    /\ IdleAnalysis
    /\ StartStep1
    /\ StartScan /\ logger = "None"
    /\ StartCalib /\ cal_script = "Callibration"

\* the first n wavelengths with a spectrum of n samples: all zero, flat,
\* rising, or one of the two peaks of the raw files
FwhmInputs ==
    UNION {{<<SubSeq(FloatColumn(WavelengthAxis), 1, n), y>> :
              y \in {Zeros(n), [i \in 1..n |-> F(3)], Ramp(n),
                     SubSeq(FloatColumn(NarrowPeakFile.intensity), 1, n),
                     SubSeq(FloatColumn(WidePeakFile.intensity), 1, n)}} :
           n \in 0..SpectrumLen}

\* 0..MaxRows fluences, rising, falling or repeated, with widths that fall
\* in a step, fall evenly, or are all zero
EstimatorInputs ==
    UNION {{<<[i \in 1..n |-> Fluence(order, i)], w>> :
              w \in {Zeros(n), [i \in 1..n |-> F(n + 1 - i)],
                     [i \in 1..n |-> IF i <= 2 THEN F(4) ELSE F(1)]}} :
           n \in 0..MaxRows, order \in FluenceOrders}

call_smooth ==
    \E version \in Versions, x \in SmoothInputs, window \in 0..MaxWindow :
        /\ fn_call' = [name |-> "smooth", version |-> version, args |-> <<x, window>>]
        /\ fn_result' = IF version = "Analysis_Codes" THEN smooth_v1(x, window)
                         ELSE smooth(x, window)
        /\ UNCHANGED othersFunctions

call_fwhm ==
    \E version \in Versions, xy \in FwhmInputs :
        /\ fn_call' = [name |-> "fwhm", version |-> version, args |-> xy]
        /\ fn_result' = IF version = "Analysis_Codes" THEN fwhm_v1(xy[1], xy[2])
                         ELSE fwhm(xy[1], xy[2])
        /\ UNCHANGED othersFunctions

call_ase_threshold ==
    \E version \in Versions, xy \in EstimatorInputs :
        /\ fn_call' = [name |-> "ase_threshold", version |-> version, args |-> xy]
        /\ fn_result' = IF version = "Analysis_Codes" THEN ase_threshold(xy[1], xy[2])
                         ELSE calculate_ase_threshold(xy[1], xy[2])
        /\ UNCHANGED othersFunctions

\* smoothed spectra of 1..SpectrumLen samples, and one longer than the ten
\* baseline samples
BaselineInputs ==
    {Ramp(n) : n \in 1..SpectrumLen} \cup {Zeros(n) : n \in 1..SpectrumLen}
      \cup {FloatColumn(NarrowPeakFile.intensity),
            [i \in 1..(BASELINE_SAMPLES + 2) |->
                IF i <= BASELINE_SAMPLES THEN F(2)
                ELSE IF i = BASELINE_SAMPLES + 1 THEN F(1) ELSE F(5)]}

call_baseline ==
    \E version \in Versions, spec \in BaselineInputs :
        /\ fn_call' = [name |-> "baseline", version |-> version, args |-> <<spec>>]
        /\ fn_result' = IF version = "Analysis_Codes" THEN baseline_shifted(spec)
                         ELSE baseline_corrected(spec)
        /\ UNCHANGED othersFunctions

\* Analysis_Codes/step2_spectrum_analysis.py main(), lines 172-200: the
\* manifest rows whose file exists and loads with n_pixels rows
RECURSIVE valid_indices(_, _, _)
valid_indices(raw, n_pixels, i) ==
    IF i = 0 THEN <<>>
    ELSE LET before == valid_indices(raw, n_pixels, i - 1)
         IN  IF raw[i].openable /\ raw[i].loadable /\ Len(raw[i].wavelength) = n_pixels
               THEN Append(before, i) ELSE before

\* Analysis_Codes/step2_spectrum_analysis.py main(), lines 140-265: what the
\* run leaves as final_results_<timestamp>.csv.  The smoothed columns are
\* terms of savgol_filter, so the widths and areas taken from them are kept
\* as terms too; the threshold goes into a comment line above the table.
main_v1(manifest, raw, window) ==
    IF ~manifest.exists THEN [written |-> FALSE, raised |-> "", rows |-> <<>>]
    ELSE IF "fluence_uJ_cm2" \notin manifest.columns
      THEN [written |-> FALSE, raised |-> "", rows |-> <<>>]
    ELSE IF manifest.rows = <<>>
      THEN [written |-> FALSE, raised |-> "IndexError", rows |-> <<>>]
    ELSE IF "filename" \notin manifest.columns
      THEN [written |-> FALSE, raised |-> "KeyError", rows |-> <<>>]
    ELSE IF ~raw[1].openable THEN [written |-> FALSE, raised |-> "", rows |-> <<>>]
    ELSE IF ~raw[1].loadable
      THEN [written |-> FALSE, raised |-> "ValueError", rows |-> <<>>]
    ELSE LET valid == valid_indices(raw, Len(raw[1].wavelength), Len(manifest.rows))
             smoothed == [k \in 1..Len(valid) |->
                             smooth_v1(FloatColumn(raw[valid[k]].intensity), window)]
         IN  IF \E k \in 1..Len(valid) : smoothed[k] = ValueError
               THEN [written |-> FALSE, raised |-> "ValueError", rows |-> <<>>]
             ELSE [written |-> TRUE, raised |-> "",
                   rows |-> [k \in 1..Len(valid) |->
                      [filename |-> manifest.rows[valid[k]].filename,
                       fluence_uJ_cm2 |-> manifest.rows[valid[k]].fluence_uJ_cm2,
                       Integration_Time_s |-> get_integration_time(raw[valid[k]]),
                       FWHM_nm |-> [fwhm_of |-> smoothed[k]],
                       Raw_Integrated_Intensity |-> [trapz_of |-> smoothed[k]],
                       Integrated_Intensity |->
                           [trapz_of |-> smoothed[k],
                            over |-> get_integration_time(raw[valid[k]])]]]]

\* the script runs main() once: manifests of 0..MaxRows rows with rising
\* fluences, their files, and a smoothing window that fits the spectra or is
\* the one of the configuration
call_main_v1 ==
    /\ fn_call = NoCall
    /\ \E n \in 0..MaxRows, columns \in ManifestColumnSets,
          window \in {SpectrumLen, SMOOTH_WINDOW_V1} :
       \E raw \in [1..n -> RawFiles] :
        /\ fn_call' = [name |-> "main", version |-> "Analysis_Codes",
                       args |-> <<Manifest(n, "rising", columns), raw, window>>]
        /\ fn_result' = main_v1(Manifest(n, "rising", columns), raw, window)
        /\ UNCHANGED othersFunctions

\* step2_spectrum_analysis.py of Analysis_Codes run as a script
SpecMainV1 == InitFunctions /\ [][call_main_v1]_vars

NextFunctions ==
    \/ call_smooth
    \/ call_baseline
    \/ call_fwhm
    \/ call_ase_threshold

SpecFunctions == InitFunctions /\ [][NextFunctions]_vars

(***************************************************************************)
(* ANALYSIS : claims                                                       *)
(***************************************************************************)
\* manifest rows whose raw file np.loadtxt rejects
Unloadable(i) == ~FileOf(i).loadable
\* manifest row i has a row in FINAL_RESULTS.csv
InFinalTable(i) ==
    \E j \in 1..Len(final_results.rows) :
        final_results.rows[j].filename = energy_manifest.rows[i].filename
\* manifest row i is a point handed to calculate_ase_threshold
InEstimation(i) == estimator_input.called /\ i \in 1..Len(estimator_input.energy)
\* row i was loaded and its baseline-corrected spectrum has no peak at all
FlatSpectrum(i) ==
    /\ FileOf(i).loadable
    /\ IsZero(MaxF(baseline_corrected(combined_csv.matrix[i]), Len(combined_csv.matrix[i])))

\* C3: once the final table is written, a manifest row whose spectrum file
\* could not be loaded has no row in the table and is no point of the
\* threshold estimation, while every row with a loadable file has its row.
C3_UnloadableFileContained ==
    final_results.written =>
        \A i \in 1..RowCount :
            IF Unloadable(i) THEN ~InFinalTable(i) /\ ~InEstimation(i)
            ELSE InFinalTable(i)

\* C6: when the threshold estimator gets past its length check and so
\* interpolates, none of the FWHM values it was handed belongs to a flat
\* spectrum, whose FWHM is undefined.
C6_UndefinedFwhmNotEstimated ==
    (estimator_input.called /\ Len(estimator_input.energy) >= MIN_THRESHOLD_POINTS) =>
        \A i \in 1..Len(estimator_input.fwhm_values) : ~FlatSpectrum(i)


\* a window that the contract of smooth excludes
InvalidWindow(window) == window < 3 \/ window % 2 = 0

\* C15: smooth fails with an invalid-window error for every window smaller
\* than 3 and for every even window; it never returns a result computed
\* with, or in place of, such a window.
C15_InvalidWindowRejected ==
    (fn_call.name = "smooth" /\ InvalidWindow(fn_call.args[2])) =>
        fn_result = ValueError

\* a spectrum whose width is undefined: fewer than 2 points, every sample
\* equal (flat, all zero included), or no sample reaching half the maximum
Degenerate(y) ==
    \/ Len(y) < 2
    \/ \A i \in 1..Len(y) : y[i] = y[1]
    \/ \A i \in 1..Len(y) : FLess(FDiv(y[i], MaxF(y, Len(y))), lev50)

\* C16: fwhm returns an explicit undefined result (nan, which no valid width
\* equals) for every degenerate spectrum, and raises no exception for it.
C16_DegenerateIsUndefined ==
    (fn_call.name = "fwhm" /\ Degenerate(fn_call.args[2])) => fn_result = NaN

\* the number of distinct fluence values
DistinctCount(energy) == Cardinality({energy[i] : i \in 1..Len(energy)})

\* C17: the threshold estimator returns an explicit undefined result (nan,
\* which no fluence equals) whenever its input has fewer than 4 distinct
\* fluence values, and a finite threshold otherwise.
C17_FewFluencesUndefined ==
    fn_call.name = "ase_threshold" =>
        IF DistinctCount(fn_call.args[1]) < MIN_THRESHOLD_POINTS
          THEN fn_result = NaN
          ELSE fn_result.k = "fin"

\* the manifest columns each stage reads
Step2Columns == {"filename", "angle"}
Step3Columns == {"filename", "fluence_uJ_cm2"}
Step2Over == pcN \notin {"s2_load", "s2_loop"}

\* C18: a stage that finds a manifest without a column it reads ends with an
\* error and writes no output (so no default takes the place of the column).
C18_MissingColumnFailsClearly ==
    energy_manifest.exists =>
        /\ ~(Step2Columns \subseteq energy_manifest.columns) =>
               /\ ~combined_csv.written
               /\ Step2Over => ana_exc # ""
        /\ ~(Step3Columns \subseteq energy_manifest.columns) =>
               /\ ~final_results.written
               /\ pcN = "done" => ana_exc # ""

\* the output files of step 3 that exist
Step3Outputs ==
    (IF final_results.written THEN {"FINAL_RESULTS.csv"} ELSE {}) \cup
    {plots_saved[i] : i \in 1..Len(plots_saved)}
AllStep3Outputs == {"FINAL_RESULTS.csv"} \cup {PlotFiles[i] : i \in 1..Len(PlotFiles)}

\* C19: when a stage has ended, with a failure or without, its output files
\* are all written or none of them is.
C19_AllOutputsOrNone ==
    pcN = "done" => Step3Outputs \in {{}, AllStep3Outputs}

\* the raw spectrum of manifest row c as the loop reads it
RawSpectrum(c) == FloatColumn(FileOf(c).intensity)
\* the label of manifest row c
BaseLabel(c) == energy_manifest.rows[c].angle

\* column c of the output under construction is what the cursor asks for:
\* below the cursor the column and header of the previous output (the raw
\* spectrum tagged RAW when there is no usable previous output), from the
\* cursor on the raw spectrum smoothed with SMOOTH_WINDOW and tagged with it
AsCursorAsks(c) ==
    IF c - 1 < START_SMOOTHING_INDEX
      THEN IF PrevUsable
             THEN /\ optimized_matrix[c] = combined_csv.matrix[c]
                  /\ final_headers[c] = combined_csv.headers[c]
             ELSE /\ optimized_matrix[c] = RawSpectrum(c)
                  /\ final_headers[c] = Header(BaseLabel(c), "RAW", 0)
      ELSE /\ optimized_matrix[c] = smooth(RawSpectrum(c), SMOOTH_WINDOW)
           /\ final_headers[c] = Header(BaseLabel(c), "w", SMOOTH_WINDOW)

\* column c is the zero column headed ERROR_<index>
ErrorColumn(c) ==
    /\ optimized_matrix[c] = Zeros(Len(wavelengths))
    /\ final_headers[c] = Header(c - 1, "ERROR", 0)

\* the raw file of row c loads with as many samples as the wavelength axis
\* and, where the column is to be copied, the previous column has as many
Processable(c) ==
    /\ FileOf(c).loadable
    /\ Len(FileOf(c).intensity) = Len(wavelengths)
    /\ (c - 1 < START_SMOOTHING_INDEX /\ PrevUsable) =>
           Len(combined_csv.matrix[c]) = Len(wavelengths)

\* the run with a complete manifest is in the loop of step 2, where the
\* COMBINED file still is the previous output
InLoop == pcN = "s2_loop" /\ energy_manifest.columns = ManifestColumns

C22_BaselineCorrectedNonNegative ==
    fn_call.name = "baseline" =>
        \A i \in 1..Len(fn_result) : IsFinite(fn_result[i]) /\ ~FLess(fn_result[i], F(0))

\* ---------------------------------------------------------------------------
\* C23  Whenever the threshold estimator returns a number, that number lies
\* strictly above min_fluence + 5% of the fluence range and at most at
\* max_fluence, and it is the point of the resampling grid with the most
\* negative FWHM gradient in that region, the lowest such fluence on ties.
EstimatorSorted ==
    ArgSorted(Array([i \in 1..Len(fn_call.args[1]) |->
                        <<fn_call.args[1][i], fn_call.args[2][i]>>],
                    Len(fn_call.args[1])))

MinFluence == EstimatorSorted[1][1]
MaxFluence == EstimatorSorted[Len(EstimatorSorted)][1]
RegionStart == FAdd(MinFluence, FMul(Fin(5, 100), FSub(MaxFluence, MinFluence)))

\* the gradient, at the grid points of the region, of the spline through the
\* sorted points
RegionGradient ==
    LET x_s == Array([i \in 1..Len(EstimatorSorted) |-> EstimatorSorted[i][1]],
                     Len(EstimatorSorted))
        y_s == Array([i \in 1..Len(EstimatorSorted) |-> EstimatorSorted[i][2]],
                     Len(EstimatorSorted))
        x_new == linspace(MinFluence, MaxFluence)
        M == SplineMoments(x_s, y_s)
        y_new == Array([k \in 1..GridPoints |-> SplineAt(x_s, y_s, M, x_new[k])],
                       GridPoints)
        dy == gradient(y_new, x_new)
    IN  {<<x_new[k], dy[k]>> : k \in {j \in 1..GridPoints : FLess(RegionStart, x_new[j])}}

C23_ThresholdInRegion ==
    (fn_call.name = "ase_threshold" /\ IsFinite(fn_result)) =>
        /\ Len(EstimatorSorted) >= 1
        /\ FLess(RegionStart, fn_result)
        /\ ~FLess(MaxFluence, fn_result)
        /\ \E p \in RegionGradient :
              /\ p[1] = fn_result
              /\ \A q \in RegionGradient :
                    /\ ~FLess(q[2], p[2])
                    /\ q[2] = p[2] => ~FLess(q[1], p[1])

\* ---------------------------------------------------------------------------
\* C24  The absorption rate taken from any absorption spectrum lies in [0, 1),
\* so that no row of the manifest with a non-negative incident energy has a
\* negative absorbed energy or fluence; spectra whose absorbance at the
\* target wavelength is negative are included.
C24_AbsorptionRateInUnitInterval ==
    AbsorptionDone =>
        /\ IsFinite(absorption_rate)
        /\ ~FLess(absorption_rate, F(0))
        /\ FLess(absorption_rate, F(1))
        /\ \A k \in 1..Len(df_results) :
              (IsFinite(df_results[k].energy_nJ) /\ ~FLess(df_results[k].energy_nJ, F(0))
                 /\ IsFinite(df_results[k].fluence_uJ_cm2)) =>
                 /\ ~FLess(df_results[k].absorbed_energy_nJ, F(0))
                 /\ ~FLess(df_results[k].fluence_uJ_cm2, F(0))

\* ---------------------------------------------------------------------------
\* C25  For an absorption spectrum in any order, the absorbance used is that
\* of an entry whose wavelength is nearest to the target wavelength, and of
\* the first such entry of the file when two are equally near.
AbsorptionEntries == DataRows(abs_file.lines)

NearestFirst(i) ==
    /\ \A j \in 1..Len(AbsorptionEntries) :
          Abs(AbsorptionEntries[i][1] - TARGET_WAVELENGTH)
            <= Abs(AbsorptionEntries[j][1] - TARGET_WAVELENGTH)
    /\ \A j \in 1..(i - 1) :
          Abs(AbsorptionEntries[j][1] - TARGET_WAVELENGTH)
            > Abs(AbsorptionEntries[i][1] - TARGET_WAVELENGTH)

C25_NearestEntryFirstOnTies ==
    (AbsorptionDone /\ ~AbsorptionUnusable) =>
        \E i \in 1..Len(AbsorptionEntries) :
            /\ NearestFirst(i)
            /\ absorption_rate = FSub(F(1), Pow10(-AbsorptionEntries[i][2]))

\* the file with two entries equally near to the target, 336 nm before 338 nm
C25_Witness ==
    /\ AbsorptionDone
    /\ abs_file.readable
    /\ abs_file.lines = AbsLinesB
    /\ absorption_rate = Fin(99, 100)

\* ---------------------------------------------------------------------------
\* C26  Every manifest row has incident energy = scale x T(angle) with
\* scale = E_ref / T(reference angle), absorbed energy = incident x absorption
\* rate and fluence = absorbed x 1e-3 / spot area; a row at the reference
\* angle has the incident energy E_ref.
ManifestBuilt == pc1 \in {"save", "done"}

RowFollowsFormulas(row) ==
    LET energy_nJ == FMul(FDiv(E_ref, trans_ref), calib_func(calib_curve, row.angle))
        absorbed_energy_nJ == FMul(energy_nJ, absorption_rate)
    IN  /\ row.energy_nJ = energy_nJ
        /\ row.absorbed_energy_nJ = absorbed_energy_nJ
        /\ row.fluence_uJ_cm2 = FDiv(FMul(absorbed_energy_nJ, Fin(1, 1000)), stripe_area_cm2)

AtReferenceAngle(row) ==
    \E a \in AngleRefs : row.angle = a /\ trans_ref = calib_func(calib_curve, a)

C26_ManifestPhysics ==
    ManifestBuilt =>
        \A k \in 1..Len(df_results) :
            /\ RowFollowsFormulas(df_results[k])
            /\ AtReferenceAngle(df_results[k]) => df_results[k].energy_nJ = E_ref

\* ---------------------------------------------------------------------------
\* C27  Angle scan: when every preset has failed at an angle, or processing
\* and saving the point has failed, and the operator answers [R]etry, the scan
\* stays at that angle, so that the angle is acquired again before the next
\* angle is taken.
RetryAnswered ==
    \/ pcA = "all_failed" /\ pcA' = "loop_head"
    \/ pcA = "process" /\ pcA' = "loop_head" /\ saved' = saved

C27_RetryReacquiresSameAngle ==
    [][RetryAnswered => point' = point]_vars

\* ---------------------------------------------------------------------------
\* C28  Throughout a scan last_successful_integ_time_s is one of the presets;
\* a point acquired at preset index j sets it to index min(j + 1, last index)
\* when the signal maximum reached the warning threshold and to index j
\* otherwise, and the index never decreases from one angle to the next unless
\* it is reset to the first preset after every preset failed.
(* Indices count from 1 here, so the first preset is index 1. *)
Scanning == pcA \in {"loop_head", "move", "acquire", "all_failed", "process"}

GuessIndex == Index(INTEGRATION_TIME_PRESETS_S, last_successful_integ_time_s)

PointSucceeded ==
    pcA = "process" /\ signal_frame # NoFrame /\ signal_frame' = NoFrame

IndexAfterSuccess ==
    LET j == Index(INTEGRATION_TIME_PRESETS_S, signal_frame.time)
        last == Len(INTEGRATION_TIME_PRESETS_S)
    IN  IF signal_frame.max_intensity >= INTEGRATION_WARNING_THRESHOLD
          THEN (IF j + 1 < last THEN j + 1 ELSE last)
          ELSE j

PositiveMaximum(y) == Len(y) >= 2 /\ FLess(F(0), MaxF(y, Len(y)))

C29_WidthNonNegative ==
    (fn_call.name = "fwhm" /\ PositiveMaximum(fn_call.args[2])) =>
        /\ IsFinite(fn_result)
        /\ ~FLess(fn_result, F(0))

\* ---------------------------------------------------------------------------
\* C30  smooth never raises for a spectrum shorter than the window, whatever
\* the length of the spectrum and the valid (odd, >= 3) window: it returns a
\* spectrum, the input or a smoothed one.
ShorterThanWindow ==
    /\ fn_call.name = "smooth"
    /\ ~InvalidWindow(fn_call.args[2])
    /\ Len(fn_call.args[1]) < fn_call.args[2]

C30_ShortSpectrumNeverRaises ==
    ShorterThanWindow => fn_result # ValueError

\* ---------------------------------------------------------------------------
\* C31  get_integration_time returns the value of the 'Integration Time (s):'
\* header when the file has one, parseable, within its first 20 lines, and
\* otherwise 1.0, raising nothing; the integrated intensity of every point is
\* its trapezoid area divided by that value.
(* The header of a file is its first line holding the tag. *)
HeaderValue(file) ==
    IF /\ file.openable
       /\ file.time_lines # <<>>
       /\ file.time_lines[1].line <= 20
       /\ file.time_lines[1].num
      THEN F(file.time_lines[1].v)
      ELSE F(1)

PointArea(i) ==
    trapz(baseline_corrected(combined_csv.matrix[i]), combined_csv.Wavelength)

C31_IntensityIsAreaOverHeaderTime ==
    \A i \in 1..Len(intensity_list) :
        /\ get_integration_time(FileOf(i)) # Raised
        /\ get_integration_time(FileOf(i)) = HeaderValue(FileOf(i))
        /\ intensity_list[i] = FDiv(PointArea(i), HeaderValue(FileOf(i)))

\* the four kinds of header met in one run: a value of 2 on line 2, a tag
\* behind the first 20 lines, text float() rejects, and no file to open
C31_Witness ==
    /\ Len(intensity_list) = MaxRows
    /\ {FileOf(i) : i \in 1..MaxRows} =
          {NarrowPeakFile, FlatFile, UnloadableFile, MissingFile}
    /\ \E i \in 1..MaxRows :
          /\ FileOf(i) = NarrowPeakFile
          /\ IsFinite(intensity_list[i])
          /\ FLess(F(0), intensity_list[i])

\* ---------------------------------------------------------------------------
\* C32  Calibration scan: every recorded row comes from a burst whose total
\* pulse count lies between MIN_PULSE_COUNT and MAX_PULSE_COUNT; a burst
\* outside that range is never recorded, and the scan leaves an angle only
\* with a row recorded for it, so the angle is measured again first.
RowsInRange ==
    \A k \in 1..Len(results) :
        /\ results[k].pulses_total >= MIN_PULSE_COUNT
        /\ results[k].pulses_total <= MAX_PULSE_COUNT

AdvancesWithRow ==
    (pcC = "acquire" /\ cal_i' # cal_i) =>
        /\ cal_i' = cal_i + 1
        /\ Len(results') = Len(results) + 1
        /\ SubSeq(results', 1, Len(results)) = results
        /\ results'[Len(results')].angle = cal_i

C32_OnlyBurstsInRangeRecorded ==
    /\ []RowsInRange
    /\ [][AdvancesWithRow]_vars
    /\ [][(pcC = "acquire" /\ results' # results) => cal_i' = cal_i + 1]_vars

\* rows recorded from bursts at the two limits of the range
C32_Witness ==
    /\ Len(results) = MaxCalAngles
    /\ results[1].pulses_total = MIN_PULSE_COUNT
    /\ results[MaxCalAngles].pulses_total = MAX_PULSE_COUNT
    /\ \A k \in 1..Len(results) : results[k].angle = k

\* ---------------------------------------------------------------------------
\* C33  The final results table has exactly one row for every manifest row, in
\* the order of the manifest, each with the identifier, the angle and the
\* fluence of its manifest row.  (Stated for a manifest that has the three
\* columns, as Step 1 writes it.)
TableFollowsManifest(rows, manifest) ==
    /\ Len(rows) = Len(manifest.rows)
    /\ \A i \in 1..Len(rows) :
          \A c \in ManifestColumns :
              /\ c \in DOMAIN rows[i]
              /\ rows[i][c] = manifest.rows[i][c]

C33_OneRowPerManifestRow ==
    (fn_call.name = "main" /\ fn_result.written
       /\ fn_call.args[1].columns = ManifestColumns) =>
        TableFollowsManifest(fn_result.rows, fn_call.args[1])

\* the same statement for Analysis_Codes_v2/step3_spectrum_analysis.py, with
\* the width, the intensity and the one threshold of the run in every row
FinalTableFollowsManifest ==
    (final_results.written /\ energy_manifest.columns = ManifestColumns) =>
        /\ TableFollowsManifest(final_results.rows, energy_manifest)
        /\ \A i \in 1..Len(final_results.rows) :
              /\ final_results.rows[i].FWHM_nm = fwhm_list[i]
              /\ final_results.rows[i].Integrated_Intensity = intensity_list[i]
              /\ final_results.rows[i].Calculated_Threshold
                   = final_results.rows[1].Calculated_Threshold

(***************************************************************************)
(* Spectrometer acquisition: acquire_frame and _wait_for_acq_id            *)
(* (Aquisition_Codes_Separated_v4_6/horiba_spectrometer_controller.py)     *)
(* Times are in milliseconds, as INTEGRATION_TIME_PRESETS_S is.            *)
(***************************************************************************)
\* aquisition_config.ACCUMULATIONS
ACCUMULATIONS == 1
\* timeout_buffer=30 of _wait_for_acq_id, in seconds
TIMEOUT_BUFFER_S == 30
\* time.sleep(0.1) at the end of the loop body
POLL_SLEEP_MS == 100
\* the longest one GetAcqID call takes, in units of POLL_SLEEP_MS
MaxCallTicks == 2

\* Python values: an int, a float, a str, None, a tuple or a list
PyValue(type, n, x, text, items) ==
    [type |-> type, n |-> n, x |-> x, text |-> text, items |-> items]
PyInt(n) == PyValue("int", n, F(0), "", <<>>)
PyFloat(x) == PyValue("float", 0, x, "", <<>>)
PyStr(text) == PyValue("str", 0, F(0), text, <<>>)
PyNone == PyValue("NoneType", 0, F(0), "", <<>>)
PyTuple(items) == PyValue("tuple", 0, F(0), "", items)
PyList(items) == PyValue("list", 0, F(0), "", items)

\* the texts int() reads as a number
IntLiterals == ("7" :> 7) @@ ("0" :> 0) @@ ("-2" :> -2)

\* int(value): a float is cut towards zero, nan and text that is no number
\* raise ValueError, inf raises OverflowError, any other type TypeError
py_int(value) ==
    IF value.type = "int" THEN [raised |-> "", v |-> value.n]
    ELSE IF value.type = "float"
      THEN IF value.x.k = "nan" THEN [raised |-> "ValueError", v |-> 0]
           ELSE IF value.x.k # "fin" THEN [raised |-> "OverflowError", v |-> 0]
           ELSE [raised |-> "", v |-> Sign(value.x.n) * (Abs(value.x.n) \div value.x.d)]
    ELSE IF value.type = "str"
      THEN IF value.text \in DOMAIN IntLiterals
             THEN [raised |-> "", v |-> IntLiterals[value.text]]
             ELSE [raised |-> "ValueError", v |-> 0]
    ELSE [raised |-> "TypeError", v |-> 0]

\* lines 299-307: the ID read from what GetAcqID returned; ValueError and
\* IndexError are caught and read as -1
parse_acq_id(get_id_ret) ==
    LET converted ==
            IF get_id_ret.type \in {"tuple", "list"}
              THEN IF get_id_ret.items = <<>>
                     THEN [raised |-> "IndexError", v |-> 0]
                     ELSE py_int(get_id_ret.items[Len(get_id_ret.items)])
            ELSE IF get_id_ret.type \in {"int", "float"} THEN py_int(get_id_ret)
            ELSE [raised |-> "", v |-> -1]
    IN  IF converted.raised \in {"ValueError", "IndexError"}
          THEN [raised |-> "", v |-> -1]
          ELSE converted

\* the IDs LabSpec reports: a spectrum, acquisition in progress, none yet,
\* cancelled, and a negative code the loop has no branch for
AcqIds == {7, 0, -1, -2, -3}

\* what GetAcqID hands back: the ID as a number or as text, alone or last in
\* a tuple or list, and the shapes the loop reads as "no ID yet"
AcqIdReturns ==
    {PyInt(n) : n \in AcqIds}
      \cup {PyTuple(<<PyInt(0), PyInt(n)>>) : n \in AcqIds}
      \cup {PyFloat(F(7)), PyFloat(Fin(-1, 2)), PyFloat(NaN),
            PyTuple(<<>>), PyTuple(<<PyStr("abc")>>), PyList(<<PyStr("7")>>),
            PyList(<<PyFloat(NaN)>>), PyStr("7"), PyNone}

Returned(v) == [kind |-> "returned", v |-> v, exc |-> ""]
RaisedWith(exc, v) == [kind |-> "raised", v |-> v, exc |-> exc]

\* lines 291-292
actual_timeout(request) ==
    (request.integration_time_s * request.accumulations) * 1 + TIMEOUT_BUFFER_S * 1000

\* lines 309-319: what one pass of the loop decides from the ID it read and
\* the clock; NoOutcome means the loop sleeps and polls again
wait_decision(parsed, now, timeout) ==
    IF parsed.raised # "" THEN RaisedWith(parsed.raised, 0)
    ELSE IF parsed.v > 0 THEN Returned(parsed.v)
    ELSE IF parsed.v = -2 THEN Returned(-2)
    ELSE IF now > timeout THEN RaisedWith("Acquisition ID timeout", 0)
    ELSE NoOutcome

acquire_frame_NoCheck(wait) == wait

\* lines 341-346: the ID of _wait_for_acq_id is returned only when positive
acquire_frame(wait) ==
    IF wait.kind = "raised" THEN wait
    ELSE IF wait.v <= 0 THEN RaisedWith("Acquisition failed", wait.v)
    ELSE Returned(wait.v)

InitAcquire ==
    /\ IdleAcquire
    /\ IdleAnalysis
    /\ StartStep1
    /\ StartScan /\ logger = "None"
    /\ StartCalib /\ cal_script = "Callibration"

\* acquire_frame lines 324-341 and _wait_for_acq_id lines 287-295: Acq() is
\* started with one of the preset times and the wait begins
acquire_frame_start ==
    /\ pcQ \in {"idle", "done"}
    /\ \E i \in 1..Len(INTEGRATION_TIME_PRESETS_S) :
         acq_request' = [integration_time_s |-> INTEGRATION_TIME_PRESETS_S[i],
                         accumulations |-> ACCUMULATIONS]
    /\ elapsed_ms' = 0
    /\ spectrum_id' = -1
    /\ wait_outcome' = NoOutcome
    /\ frame_outcome' = NoOutcome
    /\ pcQ' = "polling"
    /\ UNCHANGED othersAcquire

\* one pass of 'while spectrum_id <= 0' (lines 297-320), and the rest of
\* acquire_frame when the wait ends
wait_for_acq_id_poll ==
    /\ pcQ = "polling"
    /\ \E get_id_ret \in AcqIdReturns, call \in 0..MaxCallTicks :
         LET parsed == parse_acq_id(get_id_ret)
             now == elapsed_ms + call * POLL_SLEEP_MS
             outcome == wait_decision(parsed, now, actual_timeout(acq_request))
         IN  /\ spectrum_id' = IF parsed.raised = "" THEN parsed.v ELSE spectrum_id
             /\ IF outcome = NoOutcome
                  THEN /\ elapsed_ms' = now + POLL_SLEEP_MS
                       /\ UNCHANGED <<pcQ, wait_outcome, frame_outcome>>
                  ELSE /\ elapsed_ms' = now
                       /\ wait_outcome' = outcome
                       /\ frame_outcome' = acquire_frame(outcome)
                       /\ pcQ' = "done"
    /\ UNCHANGED acq_request
    /\ UNCHANGED othersAcquire

NextAcquire ==
    \/ acquire_frame_start
    \/ wait_for_acq_id_poll

SpecAcquire == InitAcquire /\ [][NextAcquire]_vars

\* the loop is not suspended for ever: every pass ends in a return, a raise
\* or a sleep of 0.1 s
SpecAcquireFair == SpecAcquire /\ WF_vars(wait_for_acq_id_poll)

\* ---- C34 ----
\* how _wait_for_acq_id may end: a positive ID, -2 after LabSpec reported the
\* cancellation, or the timeout error with more than the expected
\* acquisition time plus the buffer on the clock
WaitOutcomeAllowed ==
    \/ wait_outcome.kind = "returned" /\ wait_outcome.v > 0 /\ spectrum_id = wait_outcome.v
    \/ wait_outcome = Returned(-2) /\ spectrum_id = -2
    \/ /\ wait_outcome = RaisedWith("Acquisition ID timeout", 0)
       /\ spectrum_id <= 0
       /\ elapsed_ms > actual_timeout(acq_request)

\* acquire_frame hands its caller the positive ID of the wait or raises
FrameOutcomeAllowed ==
    /\ frame_outcome.kind \in {"returned", "raised"}
    /\ frame_outcome.kind = "returned" =>
         frame_outcome.v > 0 /\ frame_outcome = wait_outcome
    /\ wait_outcome.kind = "raised" => frame_outcome = wait_outcome
    /\ wait_outcome = Returned(-2) => frame_outcome = RaisedWith("Acquisition failed", -2)

\* the wait is over by the first pass that finds the deadline behind it
PollingBeforeDeadline ==
    pcQ = "polling" => elapsed_ms <= actual_timeout(acq_request) + POLL_SLEEP_MS

====
